---- MODULE Spec2Model ----
(***************************************************************************)
(* Model of the esp_dmx link-layer engine: the UART interrupt handler      *)
(* (dmx_intr_handler), the reset-sequence timer handler                    *)
(* (dmx_timer_intr_handler) and the HAL FIFO helpers they call, together   *)
(* with the UART peripheral and the tasks that drive them.                 *)
(***************************************************************************)
EXTENDS Integers, Sequences, FiniteSets, TLC

(***************************************************************************)
(* Program constants                                                       *)
(***************************************************************************)
DMX_MAX_PACKET_SIZE == 513
DMX_SC == 0
RDM_SC == 204
RDM_MESSAGE_LEN_INDEX == 2

\* Values of the task notification (dmx error codes)
DMX_OK == 0
DMX_ERR_IMPROPER_SLOT == 1
DMX_ERR_DATA_OVERFLOW == 2

\* The value the RX timeout threshold register holds
RxTimeoutThreshold == 45

(***************************************************************************)
(* Bounds of the model                                                     *)
(***************************************************************************)
\* Capacity of the UART RX and TX FIFOs, in bytes
FifoLen == 128
\* TX FIFO level below which the TXFIFO_EMPTY interrupt is raised
TxEmptyThreshold == 8
\* The most interrupt sources pending at once
MaxPending == 1
\* The most environment events (bus events, task calls) in a run of Spec
MaxEvents == 7
\* The most environment events in a run of SpecPending
MaxSeveral == 2
\* The most environment events in a run of SpecEcho
MaxEcho == 3
\* The number of distinct values esp_timer_get_time returns
MaxNow == 1

NULL == "NULL"
TASK == "task"

Min(a, b) == IF a < b THEN a ELSE b

(***************************************************************************)
(* Interrupt masks: sets of UART interrupt bits                            *)
(***************************************************************************)
DMX_INTR_RX_FIFO_OVERFLOW == {"RXFIFO_OVF"}
DMX_INTR_RX_DATA == {"RXFIFO_FULL", "RXFIFO_TOUT"}
DMX_INTR_RX_BREAK == {"BRK_DET"}
DMX_INTR_RX_FRAMING_ERR ==
    {"PARITY_ERR", "RS485_PARITY_ERR", "FRAM_ERR", "RS485_FRM_ERR"}
DMX_INTR_RX_CLASH == {"RS485_CLASH"}
DMX_INTR_RX_ALL ==
    DMX_INTR_RX_DATA \cup DMX_INTR_RX_BREAK \cup DMX_INTR_RX_FIFO_OVERFLOW
        \cup DMX_INTR_RX_FRAMING_ERR \cup DMX_INTR_RX_CLASH
DMX_INTR_TX_DATA == {"TXFIFO_EMPTY"}
DMX_INTR_TX_DONE == {"TX_DONE"}
DMX_INTR_TX_ALL == DMX_INTR_TX_DATA \cup DMX_INTR_TX_DONE
\* A UART interrupt bit the handler has no branch for
OtherBits == {"GLITCH_DET"}
DMX_ALL_INTR_MASK == DMX_INTR_RX_ALL \cup DMX_INTR_TX_ALL \cup OtherBits

VARIABLES
    is_busy,            \* driver->is_busy
    is_in_break,        \* driver->is_in_break
    head,               \* driver->buffer.head
    size,               \* driver->buffer.size
    data,               \* driver->buffer.data
    waiting_task,       \* driver->buffer.waiting_task
    last_received_ts,   \* driver->buffer.last_received_ts
    last_sent_ts,       \* driver->buffer.last_sent_ts
    data_written,       \* driver->data_written, a binary semaphore
    notify,             \* the waiting task's notification slot
    int_st,             \* UART interrupt status (pending and enabled bits)
    int_ena,            \* UART interrupt enable mask
    rx_fifo,            \* bytes in the UART RX FIFO
    tx_fifo,            \* number of bytes in the UART TX FIFO
    tx_out,             \* bytes written to the TX FIFO for the current frame
    after_break,        \* the next byte on the RX line is a start code
    tx_inverted,        \* TX line inverted (a break is on the wire)
    rts,                \* RS-485 direction: 1 receive, 0 transmit
    timer,              \* reset-sequence timer: "paused", "break" or "mab"
    in_isr,             \* the UART handler is running
    now,                \* esp_timer_get_time() at handler entry
    panicked,           \* the system has aborted
    ev,                 \* the last step taken and what it posted
    quota,              \* environment events the run may still take
    burst,              \* how far reception has got since an overflow
    unread,             \* values posted since the task last read (last two)
    read,               \* what the task last read, and what was posted then
    rdm_uid,            \* rdm_tools.c: static uint64_t rdm_uid
    arg,                \* the arguments the RDM calls are made with
    wire,               \* the last RDM packet built, and where it came from
    event,              \* the rdm_event_t rdm_parse was given to fill
    parse,              \* what rdm_parse returned, its size and how far it read
    val,                \* the value buf_to_uid or uidcpy returned
    params,             \* the parameter store of the installed port
    queue,              \* the queue of PIDs with a change to report
    reply,              \* the last call on the store and what it returned
    hist,               \* the label last set and the PIDs sets have changed
    start_code,         \* the argument of DMX_START_CODE_IS_VALID
    sc_valid            \* whether it has been evaluated, and its value

vars == <<is_busy, is_in_break, head, size, data, waiting_task,
          last_received_ts, last_sent_ts, data_written, notify, int_st,
          int_ena, rx_fifo, after_break, tx_fifo, tx_out, tx_inverted, rts,
          timer, in_isr, now, panicked, ev, quota, burst, unread, read,
          rdm_uid, arg, wire, event, parse, val, params, queue, reply, hist,
          start_code, sc_valid>>

drv == <<is_busy, is_in_break, head, size, data, waiting_task,
         last_received_ts, last_sent_ts, data_written, notify>>
hw == <<int_st, int_ena, rx_fifo, after_break, tx_fifo, tx_out, tx_inverted,
        rts, timer>>

store == <<params, queue, reply, hist>>
caps == <<start_code, sc_valid>>
rdm == <<rdm_uid, arg, wire, event, parse, val, store, caps>>

BufIndex == 0 .. (DMX_MAX_PACKET_SIZE - 1)
Times == {1000 * k : k \in 1 .. MaxNow}

\* A step that posts nothing to the waiting task, and one that posts v
Event(op) == [op |-> op, posted |-> FALSE, note |-> 0]
Post(op, v) == [op |-> op, posted |-> TRUE, note |-> v]


(***************************************************************************)
(* Helpers                                                                 *)
(***************************************************************************)
\* a - b computed in size_t: a negative difference wraps to a huge value.
\* TLC's integers are 32-bit, so the wrap is taken modulo 2^31; every
\* comparison the handlers make with the result (with 0, with a FIFO
\* length) comes out as it does modulo 2^32.
SizeSub(a, b) == IF a >= b THEN a - b ELSE (2147483647 - (b - a)) + 1

\* A post that leaves a value not yet read in place (faulty variant)
NotifiedWithoutOverwrite(v) ==
    IF notify.pending THEN notify ELSE [pending |-> TRUE, value |-> v]

\* xTaskNotifyFromISR with eSetValueWithOverwrite
Notified(v) == [pending |-> TRUE, value |-> v]

\* The first n elements of s, and what is left
Take(s, n) == SubSeq(s, 1, n)
Drop(s, n) == SubSeq(s, n + 1, Len(s))

\* buf with the bytes of s stored from index at on; indices that fall
\* outside the buffer are not part of it
Store(buf, at, s) ==
    [i \in BufIndex |->
        IF i >= at /\ i < at + Len(s) THEN s[i - at + 1] ELSE buf[i]]

\* The n bytes of buf from index at on (indices outside the buffer read 0)
Fetch(buf, at, n) ==
    [i \in 1 .. n |-> IF (at + i - 1) \in BufIndex THEN buf[at + i - 1] ELSE 0]

(***************************************************************************)
(* Faulty variants of the program's operators: what a slip in the code     *)
(* would make of them.  A property of the program fails of its variant.    *)
(***************************************************************************)
\* read_len that forgets the bytes already in the buffer
ReadLenIgnoringHead(h) == DMX_MAX_PACKET_SIZE

\* Error branches that post to any waiter, busy or not
ErrorIsNotifiedToAnyWaiter(busy, task) == task # NULL

\* An RX data branch that reads the FIFO whether or not is_busy is set
DriverIsReadyWhenIdle(busy, read_len) == read_len > 0

\* A full-packet test that fires as soon as head reaches size
FullPacketAtSize(sc, h, sz) == sc = DMX_SC /\ h >= sz

\* A timer handler that takes its two steps in the wrong order
TimerBranchSwapped(in_break) == IF in_break THEN "data" ELSE "mab"

(***************************************************************************)
(* dmx_hal.h                                                               *)
(***************************************************************************)
\* A read that takes the whole FIFO whatever was asked for (faulty variant)
ReadWholeRxFifo(req, rxfifo_len) == rxfifo_len

\* dmx_hal_read_rxfifo: clamps *size to the RX FIFO fill level
dmx_hal_read_rxfifo(req, rxfifo_len) ==
    IF req > rxfifo_len THEN rxfifo_len ELSE req

\* dmx_hal_write_txfifo: clamps *size to the free space of the TX FIFO
dmx_hal_write_txfifo(req, txfifo_len) ==
    IF req > txfifo_len THEN txfifo_len ELSE req

\* uart_ll_get_txfifo_len: free space of the TX FIFO
TxFifoFree == FifoLen - tx_fifo

(***************************************************************************)
(* dmx_intr_handler: the branch taken for a value of the status register   *)
(***************************************************************************)
\* A chain that tests TX done before TX data (faulty variant)
BranchTxDoneFirst(intr_flags) ==
    IF intr_flags \cap DMX_INTR_RX_FIFO_OVERFLOW # {} THEN "overflow"
    ELSE IF intr_flags \cap DMX_INTR_RX_FRAMING_ERR # {} THEN "framing"
    ELSE IF intr_flags \cap DMX_INTR_RX_BREAK # {} THEN "break"
    ELSE IF intr_flags \cap DMX_INTR_RX_DATA # {} THEN "data"
    ELSE IF intr_flags \cap DMX_INTR_RX_CLASH # {} THEN "clash"
    ELSE IF intr_flags \cap DMX_INTR_TX_DONE # {} THEN "tx_done"
    ELSE IF intr_flags \cap DMX_INTR_TX_DATA # {} THEN "tx_data"
    ELSE "other"

Branch(intr_flags) ==
    IF intr_flags \cap DMX_INTR_RX_FIFO_OVERFLOW # {} THEN "overflow"
    ELSE IF intr_flags \cap DMX_INTR_RX_FRAMING_ERR # {} THEN "framing"
    ELSE IF intr_flags \cap DMX_INTR_RX_BREAK # {} THEN "break"
    ELSE IF intr_flags \cap DMX_INTR_RX_DATA # {} THEN "data"
    ELSE IF intr_flags \cap DMX_INTR_RX_CLASH # {} THEN "clash"
    ELSE IF intr_flags \cap DMX_INTR_TX_DATA # {} THEN "tx_data"
    ELSE IF intr_flags \cap DMX_INTR_TX_DONE # {} THEN "tx_done"
    ELSE "other"

\* One pass of the handler's loop is about to run the branch b
Serving(b) == ~panicked /\ in_isr /\ int_st # {} /\ Branch(int_st) = b

\* The error branches post only to an armed waiter
ErrorIsNotified(busy, task) == busy /\ task # NULL

\* read_len of the RX data branch
ReadLen(h) == SizeSub(DMX_MAX_PACKET_SIZE, h)

\* The RX data branch reads the FIFO when the driver is ready
DriverIsReady(busy, read_len) == busy /\ read_len > 0

\* The RX data branch goes on to look at the packet
PacketIsProcessed(busy, task) == ~(~busy \/ task = NULL)

\* A full DMX packet has been received
FullPacket(sc, h, sz) == sc = DMX_SC /\ h > sz

\* write_size of the TX branches
WriteSize(sz, h) == SizeSub(sz, h)

\* The bytes the TX data branch hands to dmx_hal_write_txfifo: n bytes from
\* driver->buffer.data
TxDataBytes(buf, h, n) == Fetch(buf, 0, n)

\* The bytes the timer handler hands to dmx_hal_write_txfifo
TimerTxBytes(buf, h, n) == Fetch(buf, 0, n)


(***************************************************************************)
(* dmx_intr_handler                                                        *)
(***************************************************************************)
\* Entry: the UART raises its interrupt line while a status bit is set
IsrEnter ==
    /\ ~panicked /\ ~in_isr /\ int_st # {}
    /\ in_isr' = TRUE
    /\ now' \in Times
    /\ ev' = Event("enter")
    /\ UNCHANGED <<drv, hw, panicked>>

\* Exit: the status register reads zero; the handler's local `now` is gone
IsrExit ==
    /\ ~panicked /\ in_isr /\ int_st = {}
    /\ in_isr' = FALSE
    /\ now' = 0
    /\ ev' = Event("exit")
    /\ UNCHANGED <<drv, hw, panicked>>

\* else if (intr_flags & DMX_INTR_RX_FIFO_OVERFLOW)
RxFifoOverflow ==
    /\ Serving("overflow")
    /\ int_st' = int_st \ DMX_INTR_RX_FIFO_OVERFLOW
    /\ IF ErrorIsNotified(is_busy, waiting_task)
         THEN /\ notify' = Notified(DMX_ERR_DATA_OVERFLOW)
              /\ ev' = Post("overflow", DMX_ERR_DATA_OVERFLOW)
         ELSE /\ notify' = notify
              /\ ev' = Event("overflow")
    /\ is_busy' = FALSE
    /\ rx_fifo' = <<>>
    /\ UNCHANGED <<after_break, is_in_break, head, size, data, waiting_task,
                   last_received_ts, last_sent_ts, data_written, int_ena,
                   tx_fifo, tx_out, tx_inverted, rts, timer, in_isr, now,
                   panicked>>

\* else if (intr_flags & DMX_INTR_RX_FRAMING_ERR)
RxFramingErr ==
    /\ Serving("framing")
    /\ int_st' = int_st \ DMX_INTR_RX_FRAMING_ERR
    /\ IF ErrorIsNotified(is_busy, waiting_task)
         THEN /\ notify' = Notified(DMX_ERR_IMPROPER_SLOT)
              /\ ev' = Post("framing", DMX_ERR_IMPROPER_SLOT)
         ELSE /\ notify' = notify
              /\ ev' = Event("framing")
    /\ is_busy' = FALSE
    /\ rx_fifo' = <<>>
    /\ UNCHANGED <<after_break, is_in_break, head, size, data, waiting_task,
                   last_received_ts, last_sent_ts, data_written, int_ena,
                   tx_fifo, tx_out, tx_inverted, rts, timer, in_isr, now,
                   panicked>>

\* The value the break branch leaves in driver->buffer.size
BreakSize(busy, h, sz) == IF busy THEN h ELSE sz

\* else if (intr_flags & DMX_INTR_RX_BREAK), run to its end.  With is_busy
\* set and no waiting task, xTaskNotifyFromISR is handed a null handle:
\* this is the outcome in which the call returns and nothing is posted.
RxBreak ==
    /\ Serving("break")
    /\ int_st' = int_st \ DMX_INTR_RX_BREAK
    /\ is_in_break' = TRUE
    /\ IF is_busy /\ waiting_task # NULL
         THEN /\ notify' = Notified(DMX_OK)
              /\ ev' = Post("break", DMX_OK)
         ELSE /\ notify' = notify
              /\ ev' = Event("break")
    /\ size' = BreakSize(is_busy, head, size)
    /\ is_busy' = TRUE
    /\ head' = 0
    /\ rx_fifo' = <<>>
    /\ UNCHANGED <<after_break, data, waiting_task, last_received_ts,
                   last_sent_ts, data_written, int_ena, tx_fifo, tx_out,
                   tx_inverted, rts, timer, in_isr, now, panicked>>

\* The break branch with is_busy set and no waiting task, in the outcome in
\* which xTaskNotifyFromISR aborts on its null handle (configASSERT, or the
\* store through the null pointer).
RxBreakAbort ==
    /\ Serving("break")
    /\ is_busy /\ waiting_task = NULL
    /\ int_st' = int_st \ DMX_INTR_RX_BREAK
    /\ is_in_break' = TRUE
    /\ panicked' = TRUE
    /\ ev' = Event("abort")
    /\ UNCHANGED <<is_busy, head, size, data, waiting_task, last_received_ts,
                   last_sent_ts, data_written, notify, int_ena, rx_fifo,
                   after_break, tx_fifo, tx_out, tx_inverted, rts, timer,
                   in_isr, now>>

\* last_received_ts of the RX data branch
LastSlotTs(intr_flags, t) ==
    IF "RXFIFO_TOUT" \in intr_flags THEN t - (RxTimeoutThreshold * 44) ELSE t

\* else if (intr_flags & DMX_INTR_RX_DATA)
RxData ==
    /\ Serving("data")
    /\ int_st' = int_st \ DMX_INTR_RX_DATA
    /\ is_in_break' = FALSE
    /\ last_received_ts' = LastSlotTs(int_st, now)
    /\ LET read_len == ReadLen(head)
           n == dmx_hal_read_rxfifo(read_len, Len(rx_fifo))
           ready == DriverIsReady(is_busy, read_len)
           h1 == IF ready THEN head + n ELSE head
           d1 == IF ready THEN Store(data, head, Take(rx_fifo, n)) ELSE data
           full == /\ PacketIsProcessed(is_busy, waiting_task)
                   /\ FullPacket(d1[0], h1, size)
       IN  /\ head' = h1
           /\ data' = d1
           /\ rx_fifo' = IF ready THEN Drop(rx_fifo, n) ELSE <<>>
           /\ IF full
                THEN /\ notify' = Notified(0)
                     /\ is_busy' = FALSE
                     /\ ev' = Post("data", 0)
                ELSE /\ notify' = notify
                     /\ is_busy' = is_busy
                     /\ ev' = Event("data")
    /\ UNCHANGED <<after_break, size, waiting_task, last_sent_ts,
                   data_written, int_ena, tx_fifo, tx_out, tx_inverted, rts,
                   timer, in_isr, now, panicked>>

\* else if (intr_flags & DMX_INTR_RX_CLASH)
RxClash ==
    /\ Serving("clash")
    /\ int_st' = int_st \ DMX_INTR_RX_CLASH
    /\ ev' = Event("clash")
    /\ UNCHANGED <<drv, int_ena, rx_fifo, after_break, tx_fifo, tx_out,
                   tx_inverted, rts, timer, in_isr, now, panicked>>

\* A test that stops the TX data interrupt after any write (faulty variant)
DoneWritingAfterAnyWrite(h, sz) == TRUE

\* A test that never stops the TX data interrupt (faulty variant)
DoneWritingNever(h, sz) == FALSE

\* if (driver->buffer.head == driver->buffer.size)
DoneWriting(h, sz) == h = sz

\* else if (intr_flags & DMX_INTR_TX_DATA)
TxData ==
    /\ Serving("tx_data")
    /\ LET write_size == WriteSize(size, head)
           n == dmx_hal_write_txfifo(write_size, TxFifoFree)
       IN  /\ tx_out' = tx_out \o TxDataBytes(data, head, n)
           /\ tx_fifo' = tx_fifo + n
           /\ head' = head + n
           /\ IF DoneWriting(head + n, size)
                THEN /\ int_ena' = int_ena \ DMX_INTR_TX_DATA
                     /\ int_st' = int_st \ DMX_INTR_TX_DATA
                ELSE /\ int_ena' = int_ena
                     /\ int_st' = int_st \ DMX_INTR_TX_DATA
    /\ ev' = Event("tx_data")
    /\ UNCHANGED <<is_busy, is_in_break, size, data, waiting_task,
                   last_received_ts, last_sent_ts, data_written, notify,
                   rx_fifo, after_break, tx_inverted, rts, timer, in_isr,
                   now, panicked>>

\* The direction the TX done branch leaves the bus in
TxDoneRts(r) == r

\* else if (intr_flags & DMX_INTR_TX_DONE)
TxDone ==
    /\ Serving("tx_done")
    /\ int_st' = int_st \ DMX_INTR_TX_DONE
    /\ last_sent_ts' = now
    /\ is_busy' = FALSE
    /\ data_written' = 1
    /\ rts' = TxDoneRts(rts)
    /\ ev' = Event("tx_done")
    /\ UNCHANGED <<is_in_break, head, size, data, waiting_task,
                   last_received_ts, notify, int_ena, rx_fifo, after_break,
                   tx_fifo, tx_out, tx_inverted, timer, in_isr, now,
                   panicked>>

\* else: disable and clear the interrupts that are not handled
Unhandled ==
    /\ Serving("other")
    /\ int_ena' = int_ena \ int_st
    /\ int_st' = {}
    /\ ev' = Event("other")
    /\ UNCHANGED <<drv, rx_fifo, after_break, tx_fifo, tx_out, tx_inverted,
                   rts, timer, in_isr, now, panicked>>


(***************************************************************************)
(* dmx_timer_intr_handler                                                  *)
(***************************************************************************)
\* The step the handler takes when the alarm fires
TimerBranch(in_break) == IF in_break THEN "mab" ELSE "data"

\* The alarm fires while is_in_break: end the break, start the
\* mark-after-break
TimerBreakEnd ==
    /\ ~panicked /\ ~in_isr /\ timer # "paused"
    /\ TimerBranch(is_in_break) = "mab"
    /\ tx_inverted' = FALSE
    /\ is_in_break' = FALSE
    /\ timer' = "mab"
    /\ ev' = Event("timer_break")
    /\ UNCHANGED <<is_busy, head, size, data, waiting_task, last_received_ts,
                   last_sent_ts, data_written, notify, int_st, int_ena,
                   rx_fifo, after_break, tx_fifo, tx_out, rts, in_isr, now,
                   panicked>>

\* The alarm fires while not is_in_break: write the first chunk, enable the
\* TX interrupts, pause the timer
TimerSendData ==
    /\ ~panicked /\ ~in_isr /\ timer # "paused"
    /\ TimerBranch(is_in_break) = "data"
    /\ LET write_size == WriteSize(size, head)
           n == dmx_hal_write_txfifo(write_size, TxFifoFree)
       IN  /\ tx_out' = tx_out \o TimerTxBytes(data, head, n)
           /\ tx_fifo' = tx_fifo + n
           /\ head' = head + n
    /\ int_ena' = int_ena \cup DMX_INTR_TX_ALL
    /\ timer' = "paused"
    /\ ev' = Event("timer_data")
    /\ UNCHANGED <<is_busy, is_in_break, size, data, waiting_task,
                   last_received_ts, last_sent_ts, data_written, notify,
                   int_st, rx_fifo, after_break, tx_inverted, rts, in_isr,
                   now, panicked>>

(***************************************************************************)
(* The UART peripheral                                                     *)
(***************************************************************************)
\* A status bit can be raised: it is enabled and not yet pending
CanRaise(bit) ==
    /\ ~panicked /\ ~in_isr
    /\ bit \in int_ena \ int_st
    /\ Cardinality(int_st) < MaxPending

\* The transceiver's receiver is enabled: the bus is turned to receive
Receiving == rts = 1

\* Start codes the wire delivers: null and RDM
StartCodes == {DMX_SC, RDM_SC}
ChunkLens == {FifoLen}

\* The first n bytes of a packet off the wire: a start code, the RDM
\* sub-start code, a message length of 24, then slots of value 85
PacketStart(sc, n) ==
    [i \in 1 .. n |->
        IF i = 1 THEN sc
        ELSE IF i = 2 THEN 1
        ELSE IF i = 3 THEN 24
        ELSE 85]

\* n further slots off the wire
Slots(n) == [i \in 1 .. n |-> 85]

\* A break is seen on the RX line
HwBreak ==
    /\ Receiving
    /\ CanRaise("BRK_DET")
    /\ int_st' = int_st \cup {"BRK_DET"}
    /\ after_break' = TRUE
    /\ ev' = Event("env")
    /\ UNCHANGED <<drv, int_ena, rx_fifo, tx_fifo, tx_out, tx_inverted, rts,
                   timer, in_isr, now, panicked>>

\* Bytes arrive and the FIFO-full threshold or the RX timeout is reached
HwRxBytes ==
    \E sc \in StartCodes, n \in ChunkLens, bit \in DMX_INTR_RX_DATA :
        /\ Receiving
        /\ CanRaise(bit)
        /\ Len(rx_fifo) + n <= FifoLen
        /\ after_break \/ sc = DMX_SC
        /\ rx_fifo' = rx_fifo \o
                        (IF after_break THEN PacketStart(sc, n) ELSE Slots(n))
        /\ after_break' = FALSE
        /\ int_st' = int_st \cup {bit}
        /\ ev' = Event("env")
        /\ UNCHANGED <<drv, int_ena, tx_fifo, tx_out, tx_inverted, rts,
                       timer, in_isr, now, panicked>>

\* Bytes arrive in short runs ended by the RX timeout (a pair of slots) or
\* fill the FIFO: the FIFO holds a few bytes or many when the data
\* interrupt is served, and more than the buffer has room for at its end
HwRxFill ==
    \E n \in {2, FifoLen}, bit \in DMX_INTR_RX_DATA :
        /\ Receiving
        /\ CanRaise(bit)
        /\ Len(rx_fifo) + n <= FifoLen
        /\ rx_fifo' = rx_fifo \o
                        (IF after_break THEN PacketStart(DMX_SC, n) ELSE Slots(n))
        /\ after_break' = FALSE
        /\ int_st' = int_st \cup {bit}
        /\ ev' = Event("env")
        /\ UNCHANGED <<drv, int_ena, tx_fifo, tx_out, tx_inverted, rts,
                       timer, in_isr, now, panicked>>

\* Bytes arrive faster than they are read: the FIFO fills up and overflows
HwRxOverflow ==
    /\ Receiving
    /\ CanRaise("RXFIFO_OVF")
    /\ rx_fifo' = rx_fifo \o Slots(FifoLen - Len(rx_fifo))
    /\ after_break' = FALSE
    /\ int_st' = int_st \cup {"RXFIFO_OVF"}
    /\ ev' = Event("env")
    /\ UNCHANGED <<drv, int_ena, tx_fifo, tx_out, tx_inverted, rts, timer,
                   in_isr, now, panicked>>

\* A slot arrives with a parity or framing error
HwFramingErr ==
    \E bit \in {"FRAM_ERR"} :
        /\ Receiving
        /\ CanRaise(bit)
        /\ int_st' = int_st \cup {bit}
        /\ ev' = Event("env")
        /\ UNCHANGED <<drv, int_ena, rx_fifo, after_break, tx_fifo, tx_out,
                       tx_inverted, rts, timer, in_isr, now, panicked>>

\* Two devices drive the bus at once
HwClash ==
    /\ CanRaise("RS485_CLASH")
    /\ int_st' = int_st \cup {"RS485_CLASH"}
    /\ ev' = Event("env")
    /\ UNCHANGED <<drv, int_ena, rx_fifo, after_break, tx_fifo, tx_out,
                   tx_inverted, rts, timer, in_isr, now, panicked>>

\* An interrupt the handler has no branch for
HwOther ==
    \E bit \in OtherBits :
        /\ CanRaise(bit)
        /\ int_st' = int_st \cup {bit}
        /\ ev' = Event("env")
        /\ UNCHANGED <<drv, int_ena, rx_fifo, after_break, tx_fifo, tx_out,
                       tx_inverted, rts, timer, in_isr, now, panicked>>

\* The transmitter shifts bytes out of the TX FIFO, down to `level`; an
\* empty FIFO with the last byte sent raises TX_DONE.  The FIFO does not run
\* empty while TXFIFO_EMPTY is enabled: that interrupt is served before the
\* bytes under the threshold are sent.
HwTxDrain ==
    \E level \in {0, TxEmptyThreshold - 1} :
        /\ ~panicked /\ ~in_isr
        /\ level < tx_fifo
        /\ level = 0 => "TXFIFO_EMPTY" \notin int_ena
        /\ tx_fifo' = level
        /\ int_st' = IF level = 0 /\ "TX_DONE" \in int_ena
                       THEN int_st \cup {"TX_DONE"} ELSE int_st
        /\ ev' = Event("env")
        /\ UNCHANGED <<drv, int_ena, rx_fifo, after_break, tx_out,
                       tx_inverted, rts, timer, in_isr, now, panicked>>

\* A send is in progress: the semaphore is taken
Sending == data_written = 0

\* The receiver hears the bus during a send (the transceiver's receiver is
\* left enabled, or another device drives the bus): a break is seen
HwEchoBreak ==
    /\ Sending
    /\ CanRaise("BRK_DET")
    /\ int_st' = int_st \cup {"BRK_DET"}
    /\ after_break' = TRUE
    /\ ev' = Event("env")
    /\ UNCHANGED <<drv, int_ena, rx_fifo, tx_fifo, tx_out, tx_inverted, rts,
                   timer, in_isr, now, panicked>>

\* The receiver hears the bus during a send: one slot arrives and the RX
\* timeout is reached
HwEchoBytes ==
    /\ Sending
    /\ CanRaise("RXFIFO_TOUT")
    /\ Len(rx_fifo) < FifoLen
    /\ rx_fifo' = rx_fifo \o Slots(1)
    /\ after_break' = FALSE
    /\ int_st' = int_st \cup {"RXFIFO_TOUT"}
    /\ ev' = Event("env")
    /\ UNCHANGED <<drv, int_ena, tx_fifo, tx_out, tx_inverted, rts, timer,
                   in_isr, now, panicked>>

\* Several sources at once: the handler is held off while the UART sets the
\* status bits B.  The receiver's bits are among them only while the bus is
\* turned to receive; TX_DONE only when the bytes of the frame have all
\* been written and have gone out; TXFIFO_EMPTY only with the FIFO under
\* its threshold.
HwSeveral ==
    \E B \in SUBSET int_ena :
        /\ ~panicked /\ ~in_isr /\ int_st = {}
        /\ Cardinality(B) >= 2
        /\ B \cap (DMX_INTR_RX_ALL \ DMX_INTR_RX_CLASH) # {} => Receiving
        /\ "TX_DONE" \in B =>
               (head = size /\ data_written = 0 /\ timer = "paused")
        /\ tx_fifo' = IF "TX_DONE" \in B THEN 0
                      ELSE IF "TXFIFO_EMPTY" \in B
                          THEN Min(tx_fifo, TxEmptyThreshold - 1)
                      ELSE tx_fifo
        /\ int_st' = B
        /\ ev' = Event("env")
        /\ UNCHANGED <<drv, int_ena, rx_fifo, after_break, tx_out,
                       tx_inverted, rts, timer, in_isr, now, panicked>>

\* The TX FIFO holds fewer bytes than the empty threshold
HwTxFifoEmpty ==
    /\ ~panicked /\ ~in_isr
    /\ "TXFIFO_EMPTY" \in int_ena \ int_st
    /\ tx_fifo < TxEmptyThreshold
    /\ int_st' = int_st \cup {"TXFIFO_EMPTY"}
    /\ ev' = Event("env")
    /\ UNCHANGED <<drv, int_ena, rx_fifo, after_break, tx_fifo, tx_out,
                   tx_inverted, rts, timer, in_isr, now, panicked>>

(***************************************************************************)
(* Tasks                                                                   *)
(***************************************************************************)
TxSizes == {1, FifoLen + 1, DMX_MAX_PACKET_SIZE}

\* The slots a task writes into the buffer before it sends
TaskPattern == [i \in BufIndex |-> IF i = 0 THEN DMX_SC ELSE (i % 255) + 1]

\* receive(): a task arms itself as the waiter
TaskReceive ==
    /\ ~panicked /\ ~in_isr
    /\ waiting_task = NULL
    /\ data_written = 1
    /\ waiting_task' = TASK
    /\ rts' = 1
    /\ ev' = Event("env")
    /\ UNCHANGED <<is_busy, is_in_break, head, size, data, last_received_ts,
                   last_sent_ts, data_written, notify, int_st, int_ena,
                   rx_fifo, after_break, tx_fifo, tx_out, tx_inverted, timer,
                   in_isr, now, panicked>>

\* The waiter wakes up on its notification and takes its value
TaskWake ==
    /\ ~panicked /\ ~in_isr
    /\ waiting_task = TASK /\ notify.pending
    /\ notify' = [pending |-> FALSE, value |-> 0]
    /\ waiting_task' = NULL
    /\ ev' = Event("env")
    /\ UNCHANGED <<is_busy, is_in_break, head, size, data, last_received_ts,
                   last_sent_ts, data_written, hw, in_isr, now, panicked>>

\* The waiter's timeout expires: ERR_TIMEOUT, is_busy cleared
TaskTimeout ==
    /\ ~panicked /\ ~in_isr
    /\ waiting_task = TASK /\ ~notify.pending
    /\ waiting_task' = NULL
    /\ is_busy' = FALSE
    /\ ev' = Event("env")
    /\ UNCHANGED <<is_in_break, head, size, data, last_received_ts,
                   last_sent_ts, data_written, notify, hw, in_isr, now,
                   panicked>>

\* A task fills the buffer with the slots to send
TaskWrite ==
    /\ ~panicked /\ ~in_isr
    /\ data_written = 1
    /\ data # TaskPattern
    /\ data' = TaskPattern
    /\ ev' = Event("env")
    /\ UNCHANGED <<is_busy, is_in_break, head, size, waiting_task,
                   last_received_ts, last_sent_ts, data_written, notify, hw,
                   in_isr, now, panicked>>

\* send(): take the semaphore, turn the bus to TX, start the break and arm
\* the timer
Send(sz) ==
    /\ ~panicked /\ ~in_isr
    /\ data_written = 1
    /\ waiting_task = NULL
    /\ timer = "paused" /\ tx_fifo = 0 /\ int_st = {}
    /\ data_written' = 0
    /\ rts' = 0
    /\ size' = sz
    /\ head' = 0
    /\ is_busy' = TRUE
    /\ is_in_break' = TRUE
    /\ tx_inverted' = TRUE
    /\ timer' = "break"
    /\ tx_out' = <<>>
    /\ ev' = Event("env")
    /\ UNCHANGED <<data, waiting_task, last_received_ts, last_sent_ts,
                   notify, int_st, int_ena, rx_fifo, after_break,
                   tx_fifo, in_isr, now, panicked>>

TaskSend == \E sz \in TxSizes : Send(sz)

\* send() of a frame with no bytes
TaskSendNothing == Send(0)

(***************************************************************************)
(* RDM tools (rdm_tools.c)                                                 *)
(***************************************************************************)
RDM_PREAMBLE == 254
RDM_DELIMITER == 170
RDM_SUB_SC == 1
RDM_BASE_PACKET_SIZE == 26
RDM_DISCOVERY_COMMAND == 16
RDM_DISCOVERY_COMMAND_RESPONSE == 17
RDM_PID_DISC_UNIQUE_BRANCH == 1
RDM_PID_DISC_MUTE == 2
RDM_PID_DISC_UN_MUTE == 3
RDM_DEFAULT_MANUFACTURER_ID == 1504

\* Conversion to uint8_t and to uint16_t
U8(x) == x % 256
U16(x) == x % 65536

RECURSIVE BitAnd(_, _)
BitAnd(a, b) ==
    IF a = 0 \/ b = 0
        THEN 0
        ELSE (a % 2) * (b % 2) + 2 * BitAnd(a \div 2, b \div 2)

BitOr(a, b) == a + b - BitAnd(a, b)

\* A uint64_t is its eight bytes in memory, least significant first, and a
\* uint16_t in memory is two bytes, least significant first
U64Index == 0 .. 7
Zero64 == [i \in U64Index |-> 0]
bswap64(u) == [i \in U64Index |-> u[7 - i]]
Shr16(u) == [i \in U64Index |-> IF i + 2 \in U64Index THEN u[i + 2] ELSE 0]
bswap16(x) == (x % 256) * 256 + (x \div 256)
Word(lo, hi) == lo + 256 * hi
WordBytes(x) == <<x % 256, x \div 256>>

\* The byte at index i of a buffer
At(buf, i) == buf[i + 1]

\* The byte at index i of the memory that starts with pkt: what lies past
\* the end of pkt is not the caller's, and holds fill
Byte(pkt, i, fill) == IF i < Len(pkt) THEN At(pkt, i) ELSE fill

\* buf_to_uid: val is not initialised and bytes 0 to 5 of it are written;
\* top is what its bytes 6 and 7 hold
buf_to_uid(buf, top) ==
    [i \in U64Index |-> IF i <= 5 THEN At(buf, 5 - i) ELSE top[i - 5]]

\* uidcpy, the same conversion in the interrupt handler's header
uidcpy(buf, top) ==
    [i \in U64Index |-> IF i <= 5 THEN At(buf, 5 - i) ELSE top[i - 5]]

uid_to_buf(uid) ==
    LET u == Shr16(bswap64(uid))
    IN  [i \in 1 .. 6 |-> u[i - 1]]

\* The UID rdm_get_uid makes of the MAC address: rdm_uid_t is the device id
\* (32 bits) below the manufacturer id (16 bits)
MacUid(mac) ==
    LET device_id == <<At(mac, 5), At(mac, 4), At(mac, 3), At(mac, 2)>>
        manufacturer_id == WordBytes(RDM_DEFAULT_MANUFACTURER_ID)
    IN  [i \in U64Index |->
            IF i <= 3 THEN At(device_id, i)
            ELSE IF i <= 5 THEN At(manufacturer_id, i - 4)
            ELSE 0]

\* rdm_get_uid: the value it returns, which it also leaves in rdm_uid
rdm_get_uid(uid, mac) == IF uid = Zero64 THEN MacUid(mac) ELSE uid

\* The rdm_event_t a caller hands to rdm_parse: filled names the fields
\* rdm_parse has written
BlankEvent ==
    [filled |-> {}, cc |-> 0, pid |-> 0, source_uid |-> Zero64,
     destination_uid |-> Zero64, checksum_is_valid |-> FALSE, tn |-> 0,
     port_id |-> 0, message_count |-> 0, sub_device |-> 0, pdl |-> 0]

DiscFields == {"cc", "pid", "source_uid", "checksum_is_valid"}
PacketFields ==
    {"checksum_is_valid", "destination_uid", "source_uid", "tn", "port_id",
     "message_count", "sub_device", "cc", "pid", "pdl"}

\* A decoder that masks both wire bytes alike (faulty variant)
UnmaskBothLow(b0, b1) == BitOr(BitAnd(b0, 85), BitAnd(b1, 85))

\* A checksum that leaves out the 0xaa + 0x55 of every byte (faulty variant)
RECURSIVE DiscChecksumOfBytesOnly(_, _)
DiscChecksumOfBytesOnly(uid, j) ==
    IF j < 0 THEN 0 ELSE U16(uid[j] + DiscChecksumOfBytesOnly(uid, j - 1))

\* One byte of a discovery response from its two wire bytes
Unmask(b0, b1) == BitOr(BitAnd(b0, 85), BitAnd(b1, 170))

\* preamble_len after the loop that looks for the delimiter, from p on
RECURSIVE PreambleLen(_, _, _)
PreambleLen(pkt, p, fill) ==
    IF p < 7 /\ Byte(pkt, p, fill) # RDM_DELIMITER
        THEN PreambleLen(pkt, p + 1, fill)
        ELSE p

\* sum after the loop over bytes i down to 0 of the decoded UID
RECURSIVE ParseSum(_, _)
ParseSum(uid, i) ==
    IF i < 0 THEN 0 ELSE U16(uid[i] + 255 + ParseSum(uid, i - 1))

\* The uint16_t sum of the bytes of the memory at pkt from index lo up to,
\* not including, index hi (the sum of the halves, to keep the nesting low)
RECURSIVE RangeSum(_, _, _, _)
RangeSum(pkt, lo, hi, fill) ==
    IF hi <= lo THEN 0
    ELSE IF hi = lo + 1 THEN Byte(pkt, lo, fill)
    ELSE U16(RangeSum(pkt, lo, (lo + hi) \div 2, fill)
             + RangeSum(pkt, (lo + hi) \div 2, hi, fill))

\* sum after the loop over i from 0 up to, not including, n
BufSum(pkt, n, fill) == RangeSum(pkt, 0, n, fill)

\* rdm_parse(data, size, event), with pkt for data and sz for size: what it
\* returns, the event it leaves and one past the highest index it reads.
\* tops are the bytes buf_to_uid leaves unwritten in the two UIDs
rdm_parse(pkt, sz, e, fill, tops) ==
    LET B(i) == Byte(pkt, i, fill)
        sc == B(0)
    IN  IF (sc = RDM_PREAMBLE \/ sc = RDM_DELIMITER) /\ sz > 17
        THEN
            LET preamble_len == PreambleLen(pkt, 0, fill)
                R(j) == B(preamble_len + 1 + j)
                uid == [i \in U64Index |->
                           IF i <= 5
                               THEN Unmask(R(2 * (5 - i)), R(2 * (5 - i) + 1))
                               ELSE 0]
                sum == ParseSum(uid, 5)
                checksum == Word(Unmask(R(14), R(15)), Unmask(R(12), R(13)))
            IN  IF B(preamble_len) # RDM_DELIMITER \/ sz < preamble_len + 17
                THEN [ret |-> FALSE, event |-> e, end |-> preamble_len + 1]
                ELSE [ret |-> TRUE,
                      event |-> [e EXCEPT
                          !.filled = @ \cup DiscFields,
                          !.cc = RDM_DISCOVERY_COMMAND_RESPONSE,
                          !.pid = RDM_PID_DISC_UNIQUE_BRANCH,
                          !.source_uid = uid,
                          !.checksum_is_valid = (sum = checksum)],
                      end |-> preamble_len + 17]
        ELSE IF sc = RDM_SC /\ B(1) = RDM_SUB_SC /\ B(2) >= sz
        THEN
            LET message_len == B(2)
                sum == BufSum(pkt, message_len, fill)
                checksum ==
                    bswap16(Word(B(message_len), B(message_len + 1)))
            IN  [ret |-> FALSE,
                 event |-> [e EXCEPT
                     !.filled = @ \cup PacketFields,
                     !.checksum_is_valid = (sum = checksum),
                     !.destination_uid =
                         buf_to_uid(<<B(3), B(4), B(5), B(6), B(7), B(8)>>,
                                    tops[1]),
                     !.source_uid =
                         buf_to_uid(<<B(9), B(10), B(11), B(12), B(13),
                                      B(14)>>, tops[2]),
                     !.tn = B(15),
                     !.port_id = B(16),
                     !.message_count = B(17),
                     !.sub_device = bswap16(Word(B(18), B(19))),
                     !.cc = B(20),
                     !.pid = bswap16(Word(B(21), B(22))),
                     !.pdl = B(23)],
                 end |-> IF message_len + 2 > 24 THEN message_len + 2 ELSE 24]
        ELSE [ret |-> FALSE, event |-> e,
              end |-> IF sc # RDM_SC THEN 1
                      ELSE IF B(1) # RDM_SUB_SC THEN 2 ELSE 3]

\* checksum after the loop of rdm_write_discovery_response over bytes j down
\* to 0 of the UID
RECURSIVE DiscChecksum(_, _)
DiscChecksum(uid, j) ==
    IF j < 0 THEN 0 ELSE U16(uid[j] + (170 + 85) + DiscChecksum(uid, j - 1))

\* The two wire bytes of one byte of a discovery response
Interleave(b) == <<U8(BitOr(b, 170)), U8(BitOr(b, 85))>>

\* response[8 .. 23]: the UID, most significant byte first, then the checksum
DiscEncoding(uid) ==
    LET checksum == DiscChecksum(uid, 5)
    IN  Interleave(uid[5]) \o Interleave(uid[4]) \o Interleave(uid[3])
        \o Interleave(uid[2]) \o Interleave(uid[1]) \o Interleave(uid[0])
        \o Interleave(checksum \div 256) \o Interleave(checksum)

Preamble(n) == [i \in 1 .. n |-> RDM_PREAMBLE]

\* The response rdm_write_discovery_response hands to dmx_write
DiscResponse(uid) == Preamble(7) \o <<RDM_DELIMITER>> \o DiscEncoding(uid)

\* The command rdm_write_discovery_mute hands to dmx_write; own is the UID
\* rdm_get_uid returned
MuteCommand(dmx_num, uid, mute, own) ==
    LET message_len == RDM_BASE_PACKET_SIZE - 2
        header ==
            <<RDM_SC, RDM_SUB_SC, message_len>>
            \o uid_to_buf(uid) \o uid_to_buf(own)
            \o <<0, U8(dmx_num + 1), 0>>
            \o WordBytes(bswap16(0))
            \o <<RDM_DISCOVERY_COMMAND>>
            \o WordBytes(bswap16(IF mute THEN RDM_PID_DISC_MUTE
                                         ELSE RDM_PID_DISC_UN_MUTE))
            \o <<0>>
        checksum == BufSum(header, message_len, 0)
    IN  header \o WordBytes(bswap16(checksum))

(***************************************************************************)
(* RDM calls and the packets other devices put on the bus                  *)
(***************************************************************************)
\* The UID whose six bytes, most significant first, are b
Uid(b) == [i \in U64Index |-> IF i <= 5 THEN b[6 - i] ELSE 0]

\* The six bytes of a UID as they go on the wire
UidWire(u) == <<u[5], u[4], u[3], u[2], u[1], u[0]>>

RDM_MAX_UID == Uid(<<255, 255, 255, 255, 255, 254>>)

UidSamples ==
    {Zero64, RDM_MAX_UID,
     Uid(<<0, 0, 0, 0, 0, 1>>), Uid(<<1, 2, 3, 4, 5, 6>>),
     Uid(<<5, 224, 18, 52, 86, 120>>), Uid(<<170, 85, 170, 85, 170, 85>>),
     Uid(<<85, 170, 254, 0, 255, 84>>), Uid(<<254, 170, 254, 170, 0, 255>>)}

MacSamples == {<<36, 10, 196, 1, 2, 3>>, <<0, 0, 0, 0, 0, 0>>}

\* What the two bytes buf_to_uid does not write may hold
Tops == {<<0, 0>>, <<255, 1>>}

\* What a byte past the end of the caller's buffer may hold
Fills == {0, 255}

Args == [uid : UidSamples, dmx_num : {0, 1}, mac : MacSamples]
NoArgs == [uid |-> Zero64, dmx_num |-> 0, mac |-> <<0, 0, 0, 0, 0, 0>>]

\* A standard packet as the spec lays it out: the 24-byte header, whose
\* message length field holds ml, the parameter data pd and the checksum
StdPacket(dest, src, ml, pd) ==
    LET body ==
            <<RDM_SC, RDM_SUB_SC, ml>> \o UidWire(dest) \o UidWire(src)
            \o <<1, 1, 0>> \o <<1, 2>> \o <<32>> \o <<0, 96>>
            \o <<Len(pd)>> \o pd
        checksum == BufSum(body, Len(body), 0)
    IN  body \o <<checksum \div 256, checksum % 256>>

\* Everything but the buffer, the last step and the state of rdm_tools.c
rest == <<is_busy, is_in_break, head, size, waiting_task, last_received_ts,
          last_sent_ts, data_written, notify, hw, in_isr, now, panicked,
          quota, burst, unread, read, store, caps>>

\* The driver is installed and idle: dmx_write copies into its buffer
RdmIdle == ~panicked /\ ~in_isr /\ data_written = 1

\* A run converts one UID, or builds one packet and parses it once
NoValueYet == ev.op \notin {"buf_to_uid", "uidcpy"} /\ val = Zero64
NoPacketYet == wire.from = "none" /\ NoValueYet

\* rdm_set_uid(arg.uid), before anything else is done
RdmSetUid ==
    /\ ev.op = "init"
    /\ rdm_uid' = arg.uid
    /\ ev' = Event("set_uid")
    /\ UNCHANGED <<rest, data, arg, wire, event, parse, val>>

\* rdm_write_discovery_response(arg.dmx_num)
RdmWriteDiscoveryResponse ==
    LET uid == rdm_get_uid(rdm_uid, arg.mac)
    IN  /\ RdmIdle /\ NoPacketYet
        /\ rdm_uid' = uid
        /\ wire' = [from |-> "disc_response", uid |-> rdm_uid,
                    preamble |-> 7, bytes |-> DiscResponse(uid)]
        /\ data' = Store(data, 0, DiscResponse(uid))
        /\ ev' = Event("disc_response")
        /\ UNCHANGED <<rest, arg, event, parse, val>>

\* rdm_write_discovery_mute(arg.dmx_num, arg.uid, mute)
RdmWriteDiscoveryMute ==
    \E mute \in BOOLEAN :
        LET own == rdm_get_uid(rdm_uid, arg.mac)
            command == MuteCommand(arg.dmx_num, arg.uid, mute, own)
        IN  /\ RdmIdle /\ NoPacketYet
            /\ rdm_uid' = own
            /\ wire' = [from |-> IF mute THEN "mute" ELSE "un_mute",
                        uid |-> rdm_uid, preamble |-> 0, bytes |-> command]
            /\ data' = Store(data, 0, command)
            /\ ev' = Event("disc_mute")
            /\ UNCHANGED <<rest, arg, event, parse, val>>

\* A responder with UID arg.uid answers a discovery with n preamble bytes
\* (with 8, no delimiter is among the first eight bytes)
HwDiscResponse ==
    \E n \in 0 .. 8 :
        /\ NoPacketYet
        /\ wire' = [from |-> "responder", uid |-> arg.uid, preamble |-> n,
                    bytes |-> Preamble(n) \o <<RDM_DELIMITER>>
                              \o DiscEncoding(arg.uid)]
        /\ ev' = Event("bus")
        /\ UNCHANGED <<rest, data, rdm_uid, arg, event, parse, val>>

\* A controller sends a standard packet to arg.uid; the packet is well
\* formed when its message length field is the length of all but the
\* checksum
HwRdmPacket ==
    \E pd \in {<<>>, <<1, 2>>}, ml \in {0, 23, 24, 26, 28, 255} :
        /\ NoPacketYet
        /\ wire' = [from |-> IF ml = 24 + Len(pd) THEN "controller"
                                                  ELSE "malformed",
                    uid |-> Uid(<<5, 224, 0, 0, 0, 1>>), preamble |-> 0,
                    bytes |-> StdPacket(arg.uid, Uid(<<5, 224, 0, 0, 0, 1>>),
                                        ml, pd)]
        /\ ev' = Event("bus")
        /\ UNCHANGED <<rest, data, rdm_uid, arg, event, parse, val>>

\* rdm_parse on the packet last built, with its length or less as size and
\* an event not yet written to
RdmParse ==
    \E sz \in {Len(wire.bytes) - 2, Len(wire.bytes) - 1, Len(wire.bytes)},
       fill \in Fills, tops \in Tops \X Tops :
        LET r == rdm_parse(wire.bytes, sz, BlankEvent, fill, tops)
        IN  /\ wire.from # "none" /\ ev.op # "parse"
            /\ event' = r.event
            /\ parse' = [ret |-> r.ret, size |-> sz, end |-> r.end]
            /\ ev' = Event("parse")
            /\ UNCHANGED <<rest, data, rdm_uid, arg, wire, val>>

\* buf_to_uid on the six bytes uid_to_buf makes of arg.uid
RdmBufToUid ==
    \E top \in Tops :
        /\ NoPacketYet
        /\ val' = buf_to_uid(uid_to_buf(arg.uid), top)
        /\ ev' = Event("buf_to_uid")
        /\ UNCHANGED <<rest, data, rdm_uid, arg, wire, event, parse>>

\* uidcpy on the six wire bytes of arg.uid
RdmUidcpy ==
    \E top \in Tops :
        /\ NoPacketYet
        /\ val' = uidcpy(UidWire(arg.uid), top)
        /\ ev' = Event("uidcpy")
        /\ UNCHANGED <<rest, data, rdm_uid, arg, wire, event, parse>>

(***************************************************************************)
(* dmx_caps.h: start codes                                                 *)
(***************************************************************************)
\* A test that takes the first code of each reserved range for a valid one
\* (faulty variant)
StartCodeIsValidPastFirst(sc) ==
    ~(sc > 146 /\ sc <= 169) /\ ~(sc > 171 /\ sc <= 205)
    /\ ~(sc > 240 /\ sc <= 247)

DMX_START_CODE_IS_VALID(sc) ==
    ~(sc >= 146 /\ sc <= 169) /\ ~(sc >= 171 /\ sc <= 205)
    /\ ~(sc >= 240 /\ sc <= 247)

\* The macro is evaluated for start_code
CheckStartCode ==
    /\ ~sc_valid.done
    /\ sc_valid' = [done |-> TRUE,
                    value |-> DMX_START_CODE_IS_VALID(start_code)]
    /\ ev' = Event("start_code")
    /\ UNCHANGED <<drv, hw, in_isr, now, panicked, quota, burst, unread,
                   read, rdm_uid, arg, wire, event, parse, val, store,
                   start_code>>

(***************************************************************************)
(* The parameter store and the notification queue, as the spec gives them  *)
(***************************************************************************)
DMX_NUM_MAX == 2
RDM_ASCII_SIZE_MAX == 32
RDM_PID_QUEUED_MESSAGE == 32
RDM_PID_STATUS_MESSAGE == 48
RDM_PID_DEVICE_INFO == 96
RDM_PID_DEVICE_LABEL == 130
RDM_PID_SOFTWARE_VERSION_LABEL == 192

\* The notification queue holds this many PIDs
QueueCapacity == 3

\* Port 0 has a driver installed, port 1 has none and DMX_NUM_MAX is no port
Ports == 0 .. DMX_NUM_MAX
InstalledPorts == {0}
dmx_driver_is_installed(dmx_num) == dmx_num \in InstalledPorts

Pids ==
    {RDM_PID_DEVICE_INFO, RDM_PID_DEVICE_LABEL,
     RDM_PID_SOFTWARE_VERSION_LABEL}

NoDefinition == [pid_cc |-> "NONE", get |-> NULL, set |-> NULL]

NoEntry ==
    [exists |-> FALSE, type |-> "NONE", value |-> <<>>, cap |-> 0,
     def |-> NoDefinition, cb |-> NULL]

\* The first n elements of s, or all of s when it has fewer
Prefix(s, n) == IF n < Len(s) THEN SubSeq(s, 1, n) ELSE s

dmx_parameter_exists(ps, pid) == ps[pid].exists

\* add_parameter: refuses a duplicate and refuses when there is no room; a
\* NON_VOLATILE entry takes the value Nvs holds, when it holds one
dmx_driver_add_parameter(ps, pid, type, init, sz, room, stored) ==
    IF ps[pid].exists \/ ~room
        THEN [ok |-> FALSE, params |-> ps]
        ELSE [ok |-> TRUE,
              params |-> [ps EXCEPT ![pid] =
                  [exists |-> TRUE, type |-> type,
                   value |-> IF type = "NON_VOLATILE" /\ stored.present
                                 THEN Prefix(stored.value, sz)
                                 ELSE Prefix(init, sz),
                   cap |-> sz, def |-> NoDefinition, cb |-> NULL]]]

\* parameter_set: rejects a PID with no entry and a STATIC entry, clamps the
\* size to the entry's capacity
dmx_parameter_set(ps, pid, bytes, sz) ==
    IF ~ps[pid].exists \/ ps[pid].type = "STATIC"
        THEN [ok |-> FALSE, params |-> ps]
        ELSE [ok |-> TRUE,
              params |-> [ps EXCEPT ![pid].value =
                              Prefix(bytes, Min(sz, ps[pid].cap))]]

\* parameter_copy: the bytes it puts in the caller's memory
dmx_parameter_copy(ps, pid, max) ==
    IF ~ps[pid].exists THEN <<>> ELSE Prefix(ps[pid].value, max)

rdm_definition_set(ps, pid, def) ==
    IF ps[pid].exists THEN [ps EXCEPT ![pid].def = def] ELSE ps

rdm_callback_set(ps, pid, cb) ==
    IF ps[pid].exists
        THEN [ok |-> TRUE, params |-> [ps EXCEPT ![pid].cb = cb]]
        ELSE [ok |-> FALSE, params |-> ps]

\* queue_push: a full queue drops its oldest PID
rdm_queue_push(q, pid) ==
    IF Len(q) < QueueCapacity THEN Append(q, pid) ELSE Append(Tail(q), pid)

\* queue_pop: the PID at the head, or 0
rdm_queue_pop(q) ==
    IF q = <<>> THEN [pid |-> 0, queue |-> q]
                ELSE [pid |-> Head(q), queue |-> Tail(q)]

(***************************************************************************)
(* product_info.c                                                          *)
(***************************************************************************)
\* A C string argument: a null pointer, or the characters before its
\* terminator
NullLabel == [null |-> TRUE, chars |-> <<>>]
Str(chars) == [null |-> FALSE, chars |-> chars]
Hello == <<72, 101, 108, 108, 111>>
Filled(n, c) == [i \in 1 .. n |-> c]
LongestLabel == Filled(RDM_ASCII_SIZE_MAX - 1, 65)
TooLongLabel == Filled(RDM_ASCII_SIZE_MAX, 66)

strnlen(chars, n) == Min(Len(chars), n)
strncpy(chars, n) == [i \in 1 .. n |-> IF i <= Len(chars) THEN chars[i] ELSE 0]

\* The arguments the calls are made with
Callbacks == {"on_change", "on_change_again"}
RegisterLabels ==
    {NullLabel, Str(Hello), Str(LongestLabel), Str(TooLongLabel)}
ProductInfo == <<1, 257, 1>>
NvsContents ==
    {[present |-> FALSE, value |-> <<>>],
     [present |-> TRUE, value |-> strncpy(<<78, 118, 115>>, RDM_ASCII_SIZE_MAX)]}
SetLabels ==
    {[bytes |-> Hello, size |-> Len(Hello)],
     [bytes |-> Filled(RDM_ASCII_SIZE_MAX, 67), size |-> RDM_ASCII_SIZE_MAX],
     [bytes |-> Filled(RDM_ASCII_SIZE_MAX + 1, 68),
      size |-> RDM_ASCII_SIZE_MAX + 1]}
GetSizes == {0, 4, RDM_ASCII_SIZE_MAX}

\* What a call reports: whether DMX_CHECK turned it away, whether it
\* returned true (or a size above zero), the bytes it put in the caller's
\* memory and the room the caller gave, whether it read through a null
\* pointer, whether an argument was invalid, and the callback it was given
Reply(op, invalid, ok) ==
    [op |-> op, invalid |-> invalid, ok |-> ok, out |-> <<>>, max |-> 0,
     deref |-> FALSE, bad |-> invalid, cb |-> NULL, pid |-> 0,
     popped |-> 0, pdl |-> 0,
     pdl_written |-> FALSE, ack |-> "NONE"]

NoReply == Reply("none", FALSE, FALSE)
NoHistory == [label |-> [set |-> FALSE, bytes |-> <<>>], changed |-> {}]

outside == <<drv, hw, in_isr, now, quota, burst, unread, read, rdm_uid, arg,
             wire, event, parse, val, caps>>

\* DMX_CHECK(dmx_num < DMX_NUM_MAX) and DMX_CHECK(dmx_driver_is_installed)
PortIsUsable(dmx_num) ==
    dmx_num < DMX_NUM_MAX /\ dmx_driver_is_installed(dmx_num)

\* A call that DMX_CHECK turns away
Refused(op) ==
    /\ reply' = Reply(op, TRUE, FALSE)
    /\ UNCHANGED <<params, queue, hist, panicked>>

\* A read through a null pointer: the load traps and the system aborts, or
\* it yields bytes that are not the caller's and the call goes on
NullRead(op, go_on) ==
    \/ /\ panicked' = TRUE
       /\ reply' = [Reply(op, FALSE, FALSE) EXCEPT !.deref = TRUE,
                                                    !.bad = TRUE]
       /\ UNCHANGED <<params, queue, hist>>
    \/ go_on

DeviceInfoDefinition ==
    [pid_cc |-> "GET", get |-> "rdm_rhd_get_device_info", set |-> NULL]

DeviceLabelDefinition ==
    [pid_cc |-> "GET_SET", get |-> "rdm_simple_response_handler",
     set |-> "rdm_simple_response_handler"]

\* A definition of the software version label that can be SET (faulty
\* variant)
SoftwareVersionLabelWithSet ==
    [pid_cc |-> "GET_SET", get |-> "rdm_simple_response_handler",
     set |-> "rdm_simple_response_handler"]

SoftwareVersionLabelDefinition ==
    [pid_cc |-> "GET", get |-> "rdm_simple_response_handler", set |-> NULL]

\* The tail of the three registration functions: add the parameter, and
\* when that succeeds set its definition and its callback
Register(op, pid, type, init, sz, def, cb, room, stored, deref, bad) ==
    LET added == dmx_driver_add_parameter(params, pid, type, init, sz, room,
                                          stored)
        defined == rdm_definition_set(added.params, pid, def)
        called == rdm_callback_set(defined, pid, cb)
    IN  /\ params' = IF added.ok THEN called.params ELSE params
        /\ reply' = [Reply(op, FALSE, added.ok /\ called.ok)
                        EXCEPT !.deref = deref, !.bad = bad, !.cb = cb]
        /\ UNCHANGED <<queue, hist, panicked>>

RdmRegisterDeviceInfo ==
    /\ ~panicked
    /\ ev' = Event("register_device_info")
    /\ UNCHANGED outside
    /\ \E dmx_num \in Ports, cb \in Callbacks, room \in BOOLEAN :
        IF ~PortIsUsable(dmx_num)
            THEN Refused("register_device_info")
            ELSE Register("register_device_info", RDM_PID_DEVICE_INFO,
                          "DYNAMIC", ProductInfo, Len(ProductInfo),
                          DeviceInfoDefinition, cb, room,
                          [present |-> FALSE, value |-> <<>>], FALSE,
                          FALSE)

RdmRegisterDeviceLabel ==
    /\ ~panicked
    /\ ev' = Event("register_device_label")
    /\ UNCHANGED outside
    /\ \E dmx_num \in Ports, device_label \in RegisterLabels,
          cb \in Callbacks, room \in BOOLEAN, stored \in NvsContents :
        LET op == "register_device_label"
            pid == RDM_PID_DEVICE_LABEL
            too_long == strnlen(device_label.chars, RDM_ASCII_SIZE_MAX)
                            >= RDM_ASCII_SIZE_MAX
            tail(init, deref) ==
                Register(op, pid, "NON_VOLATILE", init, RDM_ASCII_SIZE_MAX,
                         DeviceLabelDefinition, cb, room, stored, deref,
                         device_label.null \/ too_long)
        IN  IF ~PortIsUsable(dmx_num)
                THEN Refused(op)
            ELSE IF /\ ~dmx_parameter_exists(params, pid)
                    /\ (device_label.null \/ too_long)
                THEN Refused(op)
            ELSE IF device_label.null
                THEN NullRead(op,
                         \E junk \in {Filled(RDM_ASCII_SIZE_MAX, 0),
                                      Filled(RDM_ASCII_SIZE_MAX, 255)} :
                             tail(junk, TRUE))
            ELSE tail(strncpy(device_label.chars, RDM_ASCII_SIZE_MAX), FALSE)

\* A copy taken from the software version label (faulty variant)
DeviceLabelCopiedFromVersion(ps, max) ==
    dmx_parameter_copy(ps, RDM_PID_SOFTWARE_VERSION_LABEL, max)

\* The bytes rdm_get_device_label has dmx_parameter_copy put in device_label
DeviceLabelCopied(ps, max) ==
    dmx_parameter_copy(ps, RDM_PID_DEVICE_LABEL, max)

RdmGetDeviceLabel ==
    /\ ~panicked
    /\ ev' = Event("get_device_label")
    /\ UNCHANGED outside
    /\ \E dmx_num \in Ports, out_is_null \in BOOLEAN, max \in GetSizes :
        IF ~(dmx_num < DMX_NUM_MAX) \/ out_is_null
               \/ ~dmx_driver_is_installed(dmx_num)
            THEN Refused("get_device_label")
            ELSE LET out == DeviceLabelCopied(params, max)
                 IN  /\ reply' = [Reply("get_device_label", FALSE,
                                        Len(out) > 0)
                                     EXCEPT !.out = out, !.max = max]
                     /\ UNCHANGED <<params, queue, hist, panicked>>

\* Whether rdm_set_device_label goes on to rdm_queue_push
SetDeviceLabelPushesAlways(set_ok) == TRUE

SetDeviceLabelPushes(set_ok) == set_ok

RdmSetDeviceLabel ==
    /\ ~panicked
    /\ ev' = Event("set_device_label")
    /\ UNCHANGED outside
    /\ \E dmx_num \in Ports, device_label \in SetLabels :
        IF ~PortIsUsable(dmx_num)
            THEN Refused("set_device_label")
            ELSE LET pid == RDM_PID_DEVICE_LABEL
                     set == dmx_parameter_set(params, pid,
                                device_label.bytes, device_label.size)
                     \* parameter_set has pushed the PID when it succeeded
                     pushed == IF set.ok THEN rdm_queue_push(queue, pid)
                                         ELSE queue
                 IN  /\ params' = set.params
                     /\ queue' = IF SetDeviceLabelPushes(set.ok)
                                     THEN rdm_queue_push(pushed, pid)
                                     ELSE pushed
                     /\ reply' = Reply("set_device_label", FALSE, set.ok)
                     /\ hist' = IF set.ok
                           THEN [label |-> [set |-> TRUE,
                                            bytes |-> Prefix(device_label.bytes,
                                                          device_label.size)],
                                 changed |-> hist.changed \cup {pid}]
                           ELSE hist
                     /\ UNCHANGED panicked

RdmRegisterSoftwareVersionLabel ==
    /\ ~panicked
    /\ ev' = Event("register_software_version_label")
    /\ UNCHANGED outside
    /\ \E dmx_num \in Ports, software_version_label \in RegisterLabels,
          cb \in Callbacks, room \in BOOLEAN :
        LET op == "register_software_version_label"
            pid == RDM_PID_SOFTWARE_VERSION_LABEL
            too_long == strnlen(software_version_label.chars,
                                RDM_ASCII_SIZE_MAX) >= RDM_ASCII_SIZE_MAX
            tail(init, deref) ==
                Register(op, pid, "STATIC", init, Len(init),
                         SoftwareVersionLabelDefinition, cb, room,
                         [present |-> FALSE, value |-> <<>>], deref,
                         software_version_label.null \/ too_long)
        IN  IF ~PortIsUsable(dmx_num)
                THEN Refused(op)
            ELSE IF /\ ~dmx_parameter_exists(params, pid)
                    /\ (software_version_label.null \/ too_long)
                THEN Refused(op)
            ELSE IF software_version_label.null
                THEN NullRead(op, \E junk \in {<<>>, <<255>>} :
                                      tail(junk, TRUE))
            ELSE tail(Prefix(software_version_label.chars,
                             strnlen(software_version_label.chars,
                                     RDM_ASCII_SIZE_MAX)), FALSE)

RdmGetSoftwareVersionLabel ==
    /\ ~panicked
    /\ ev' = Event("get_software_version_label")
    /\ UNCHANGED outside
    /\ \E dmx_num \in Ports, out_is_null \in BOOLEAN, max \in GetSizes :
        IF ~(dmx_num < DMX_NUM_MAX) \/ out_is_null \/ ~(max > 0)
               \/ ~dmx_driver_is_installed(dmx_num)
            THEN Refused("get_software_version_label")
            ELSE LET out == dmx_parameter_copy(params,
                                RDM_PID_SOFTWARE_VERSION_LABEL, max)
                 IN  /\ reply' = [Reply("get_software_version_label", FALSE,
                                        Len(out) > 0)
                                     EXCEPT !.out = out, !.max = max]
                     /\ UNCHANGED <<params, queue, hist, panicked>>

(***************************************************************************)
(* queue_status.c                                                          *)
(***************************************************************************)
RDM_STATUS_GET_LAST_MESSAGE == 1
RDM_STATUS_ADVISORY == 2
RDM_STATUS_WARNING == 3
RDM_STATUS_ERROR == 4
\* The status types a request may carry, with 0 for one the handler rejects
StatusTypes == 0 .. RDM_STATUS_ERROR

\* rdm_emplace_word writes one 16-bit word and returns its size
WordSize == 2

rdm_rhd_status_messages == [pdl |-> 0, ack |-> "ACK"]

\* rdm_rhd_queued_message serves a request whose header names QUEUED_MESSAGE;
\* the caller's *pdl_out holds whatever it held before the call
RdmQueuedMessage ==
    /\ ~panicked
    /\ ev' = Event("queued_message")
    /\ UNCHANGED outside
    /\ UNCHANGED <<params, hist, panicked>>
    /\ \E status_type_requested \in StatusTypes, pdl_before \in {0, 255} :
        LET header == [Reply("queued_message", FALSE, TRUE)
                          EXCEPT !.pid = RDM_PID_QUEUED_MESSAGE,
                                 !.pdl = pdl_before]
            popped == rdm_queue_pop(queue)
        IN  IF status_type_requested \notin
                   {RDM_STATUS_GET_LAST_MESSAGE, RDM_STATUS_ADVISORY,
                    RDM_STATUS_WARNING, RDM_STATUS_ERROR}
                THEN /\ reply' = [header EXCEPT !.pdl = WordSize,
                                                !.pdl_written = TRUE,
                                                !.ack = "NACK_REASON",
                                                !.ok = FALSE]
                     /\ UNCHANGED queue
            ELSE /\ queue' = popped.queue
                 /\ reply' =
                     IF popped.pid # 0
                         THEN [header EXCEPT !.ack = "ACK",
                                             !.popped = popped.pid]
                         ELSE [header EXCEPT
                                  !.pid = RDM_PID_STATUS_MESSAGE,
                                  !.pdl = rdm_rhd_status_messages.pdl,
                                  !.pdl_written = TRUE,
                                  !.ack = rdm_rhd_status_messages.ack]

InitStore ==
    /\ params = [pid \in Pids |-> NoEntry]
    /\ queue = <<>>
    /\ reply = NoReply
    /\ hist = NoHistory

InitCaps ==
    /\ start_code = 0
    /\ sc_valid = [done |-> FALSE, value |-> FALSE]

(***************************************************************************)
(* Specification                                                           *)
(***************************************************************************)
InitDriver ==
    /\ is_busy = FALSE
    /\ is_in_break = FALSE
    /\ head = 0
    /\ size = DMX_MAX_PACKET_SIZE
    /\ data = [i \in BufIndex |-> 0]
    /\ waiting_task = NULL
    /\ last_received_ts = 0
    /\ last_sent_ts = 0
    /\ data_written = 1
    /\ notify = [pending |-> FALSE, value |-> 0]
    /\ int_st = {}
    /\ int_ena = DMX_INTR_RX_ALL \cup OtherBits
    /\ rx_fifo = <<>>
    /\ after_break = FALSE
    /\ tx_fifo = 0
    /\ tx_out = <<>>
    /\ tx_inverted = FALSE
    /\ rts = 1
    /\ timer = "paused"
    /\ in_isr = FALSE
    /\ now = 0
    /\ panicked = FALSE
    /\ ev = Event("init")
    /\ quota = MaxEvents
    /\ burst = "none"
    /\ unread = <<>>
    /\ read = [value |-> 0, posted |-> <<>>]

\* rdm_tools.c before any call
InitRdmTools ==
    /\ rdm_uid = Zero64
    /\ wire = [from |-> "none", uid |-> Zero64, preamble |-> 0,
               bytes |-> <<>>]
    /\ event = BlankEvent
    /\ parse = [ret |-> FALSE, size |-> 0, end |-> 0]
    /\ val = Zero64

Init ==
    InitDriver /\ InitRdmTools /\ arg = NoArgs /\ InitStore /\ InitCaps

\* A step of the program or of the UART's transmitter
Sys(A) == A /\ UNCHANGED <<quota, burst, unread, read, rdm>>

\* A step of the environment: an event on the bus or a call by a task
Env(A) ==
    quota > 0 /\ A /\ quota' = quota - 1 /\ UNCHANGED <<burst, unread, read, rdm>>

Next ==
    \/ Sys(IsrEnter) \/ Sys(IsrExit)
    \/ Sys(RxFifoOverflow) \/ Sys(RxFramingErr)
    \/ Sys(RxBreak) \/ Sys(RxBreakAbort) \/ Sys(RxData) \/ Sys(RxClash)
    \/ Sys(TxData) \/ Sys(TxDone) \/ Sys(Unhandled)
    \/ Sys(TimerBreakEnd) \/ Sys(TimerSendData)
    \/ Sys(HwTxDrain) \/ Sys(HwTxFifoEmpty)
    \/ Env(HwBreak) \/ Env(HwRxBytes) \/ Env(HwRxOverflow)
    \/ Env(HwFramingErr) \/ Env(HwClash) \/ Env(HwOther)
    \/ Env(TaskReceive) \/ Env(TaskWake) \/ Env(TaskTimeout)
    \/ Env(TaskWrite) \/ Env(TaskSend)

\* Every behaviour of at most MaxEvents environment events
Spec == Init /\ [][Next]_vars

\* The receive side alone, with no bound on the events: the bus stays
\* turned to receive and no task sends
NextRx ==
    \/ Sys(IsrEnter) \/ Sys(IsrExit)
    \/ Sys(RxFifoOverflow) \/ Sys(RxFramingErr)
    \/ Sys(RxBreak) \/ Sys(RxBreakAbort) \/ Sys(RxData) \/ Sys(RxClash)
    \/ Sys(HwBreak) \/ Sys(HwRxBytes) \/ Sys(HwRxOverflow)
    \/ Sys(HwFramingErr) \/ Sys(HwClash)
    \/ Sys(TaskReceive) \/ Sys(TaskWake) \/ Sys(TaskTimeout)

SpecRx == Init /\ [][NextRx]_vars

\* The transmit side alone, with no bound on the events: nothing arrives on
\* the bus
NextTx ==
    \/ Sys(IsrEnter) \/ Sys(IsrExit)
    \/ Sys(TxData) \/ Sys(TxDone)
    \/ Sys(TimerBreakEnd) \/ Sys(TimerSendData)
    \/ Sys(HwTxDrain) \/ Sys(HwTxFifoEmpty)
    \/ Sys(TaskWrite) \/ Sys(TaskSend)

SpecTx == Init /\ [][NextTx]_vars

\* A step of the environment in a run of at most MaxSeveral of them
Few(A) == quota > MaxEvents - MaxSeveral /\ Env(A)

\* The handler entered with several sources pending, while a task receives
\* or sends
NextPending ==
    \/ Sys(IsrEnter) \/ Sys(IsrExit)
    \/ Sys(RxFifoOverflow) \/ Sys(RxFramingErr)
    \/ Sys(RxBreak) \/ Sys(RxBreakAbort) \/ Sys(RxData) \/ Sys(RxClash)
    \/ Sys(TxData) \/ Sys(TxDone) \/ Sys(Unhandled)
    \/ Sys(TimerBreakEnd) \/ Sys(TimerSendData)
    \/ Sys(HwTxDrain) \/ Sys(HwTxFifoEmpty)
    \/ Few(HwSeveral)
    \/ Few(TaskReceive) \/ Few(TaskSend)

SpecPending == Init /\ [][NextPending]_vars

\* A step taken while head is within the buffer
InBuffer(A) == head <= DMX_MAX_PACKET_SIZE /\ Sys(A)

\* A step of the environment in a run of at most MaxEcho of them
Seldom(A) == quota > MaxEvents - MaxEcho /\ Env(A)

\* The receive side with the FIFO at any fill level when it is read
NextFill ==
    \/ Sys(IsrEnter) \/ Sys(IsrExit)
    \/ Sys(RxBreak) \/ Sys(RxBreakAbort) \/ Sys(RxData)
    \/ Env(HwBreak) \/ Env(HwRxFill)
    \/ Env(TaskReceive)

SpecFill == Init /\ [][NextFill]_vars

\* The handler entered with several sources pending and run without
\* pause: it is an interrupt handler that calls nothing that blocks, so
\* the pass of its loop that can run next does run, and so does its exit
SpecPendingFair ==
    /\ Init /\ [][NextPending]_vars
    /\ WF_vars(Sys(RxFifoOverflow)) /\ WF_vars(Sys(RxFramingErr))
    /\ WF_vars(Sys(RxBreak) \/ Sys(RxBreakAbort))
    /\ WF_vars(Sys(RxData)) /\ WF_vars(Sys(RxClash))
    /\ WF_vars(Sys(TxData)) /\ WF_vars(Sys(TxDone))
    /\ WF_vars(Sys(Unhandled)) /\ WF_vars(Sys(IsrExit))

\* The transmit side with the receiver hearing the bus during a send
NextEcho ==
    \/ Sys(IsrEnter) \/ Sys(IsrExit)
    \/ Sys(RxBreak) \/ Sys(RxBreakAbort) \/ InBuffer(RxData)
    \/ InBuffer(TxData) \/ Sys(TxDone)
    \/ Sys(TimerBreakEnd) \/ InBuffer(TimerSendData)
    \/ Sys(HwTxDrain) \/ Sys(HwTxFifoEmpty)
    \/ Seldom(HwEchoBreak) \/ Seldom(HwEchoBytes)
    \/ Seldom(TaskSend)

SpecEcho == Init /\ [][NextEcho]_vars

\* The transmit side with frames of every size, the UART shifting bytes out
\* and raising its interrupts without fail, and the handler run whenever an
\* interrupt is pending
NextTxFair == NextTx \/ Sys(TaskSendNothing)

SpecTxFair ==
    /\ Init /\ [][NextTxFair]_vars
    /\ WF_vars(Sys(IsrEnter)) /\ WF_vars(Sys(IsrExit))
    /\ WF_vars(Sys(TxData)) /\ WF_vars(Sys(TxDone))
    /\ WF_vars(Sys(HwTxDrain)) /\ WF_vars(Sys(HwTxFifoEmpty))

\* The history of reception after the step e: "overflowed" once an overflow
\* has been reported, "restarted" at the break that follows, "received"
\* when an OK is then posted
BurstAfter(b, e) ==
    IF e.op = "overflow" /\ e.posted THEN "overflowed"
    ELSE IF b = "overflowed" /\ e.op = "break" THEN "restarted"
    ELSE IF b = "restarted" /\ e.op \in {"break", "data"} /\ e.posted
        THEN "received"
    ELSE b

\* A step of the receive side, with the history kept
Tracked(A) ==
    A /\ burst' = BurstAfter(burst, ev') /\ UNCHANGED <<quota, unread, read, rdm>>

\* The receive side alone, with the history of reception since an overflow
NextBurst ==
    \/ Tracked(IsrEnter) \/ Tracked(IsrExit)
    \/ Tracked(RxFifoOverflow) \/ Tracked(RxFramingErr)
    \/ Tracked(RxBreak) \/ Tracked(RxBreakAbort) \/ Tracked(RxData)
    \/ Tracked(RxClash)
    \/ Tracked(HwBreak) \/ Tracked(HwRxBytes) \/ Tracked(HwRxOverflow)
    \/ Tracked(HwFramingErr) \/ Tracked(HwClash)
    \/ Tracked(TaskReceive) \/ Tracked(TaskWake) \/ Tracked(TaskTimeout)

SpecBurst == Init /\ [][NextBurst]_vars

\* s with v put at its end, of which the last two are kept
LastTwo(s, v) == IF Len(s) < 2 THEN Append(s, v) ELSE <<s[2], v>>

\* The values posted and read, kept over a step: the step that takes the
\* notification is the task reading it
History ==
    IF notify.pending /\ ~notify'.pending
        THEN /\ read' = [value |-> notify.value, posted |-> unread]
             /\ unread' = <<>>
        ELSE /\ read' = read
             /\ unread' = IF ev'.posted THEN LastTwo(unread, ev'.note)
                                        ELSE unread

\* A step of the handler, and a step of the bus or of the task
Heard(A) == A /\ History /\ UNCHANGED <<quota, burst, rdm>>
HeardEnv(A) ==
    quota > 0 /\ A /\ History /\ quota' = quota - 1
    /\ UNCHANGED <<burst, rdm>>

\* The receive side alone, with the history of the notification
NextNotify ==
    \/ Heard(IsrEnter) \/ Heard(IsrExit)
    \/ Heard(RxFifoOverflow) \/ Heard(RxFramingErr)
    \/ Heard(RxBreak) \/ Heard(RxBreakAbort) \/ Heard(RxData)
    \/ Heard(RxClash)
    \/ HeardEnv(HwBreak) \/ HeardEnv(HwRxBytes) \/ HeardEnv(HwRxOverflow)
    \/ HeardEnv(HwFramingErr) \/ HeardEnv(HwClash)
    \/ HeardEnv(TaskReceive) \/ HeardEnv(TaskWake) \/ HeardEnv(TaskTimeout)

SpecNotify == Init /\ [][NextNotify]_vars

\* The RDM tools alone: the arguments are drawn at the start
InitRdm ==
    InitDriver /\ InitRdmTools /\ arg \in Args /\ InitStore /\ InitCaps

NextRdm ==
    \/ RdmSetUid
    \/ RdmWriteDiscoveryResponse
    \/ RdmWriteDiscoveryMute
    \/ HwDiscResponse
    \/ HwRdmPacket
    \/ RdmParse
    \/ RdmBufToUid
    \/ RdmUidcpy

SpecRdm == InitRdm /\ [][NextRdm]_vars

\* The product information and queued-message calls, in any order
NextStore ==
    \/ RdmRegisterDeviceInfo
    \/ RdmRegisterDeviceLabel
    \/ RdmGetDeviceLabel
    \/ RdmSetDeviceLabel
    \/ RdmRegisterSoftwareVersionLabel
    \/ RdmGetSoftwareVersionLabel
    \/ RdmQueuedMessage

SpecStore == Init /\ [][NextStore]_vars

\* The start-code test, on every start code
InitStartCode ==
    /\ InitDriver /\ InitRdmTools /\ arg = NoArgs /\ InitStore
    /\ start_code \in 0 .. 255
    /\ sc_valid = [done |-> FALSE, value |-> FALSE]

NextCaps == CheckStartCode

SpecCaps == InitStartCode /\ [][NextCaps]_vars

(***************************************************************************)
(* Properties                                                              *)
(***************************************************************************)
\* A send is under way: the semaphore is taken from send() to TX done
Transmitting == data_written = 0

C2_ChunksAreTheFrame ==
    (Transmitting /\ size > FifoLen /\ head = size)
        => tx_out = Fetch(data, 0, size)

\* C3: the timer handler's steps come in the order break, MAB, data.  The
\* fire that finds is_in_break set ends the break (line no longer inverted),
\* clears is_in_break and re-arms the alarm for the MAB, and writes nothing;
\* the fire that writes the first chunk comes after it, with the line no
\* longer inverted, and enables the TX interrupts and pauses the timer.
C3_BreakMabData ==
    [][/\ ev'.op = "timer_break" =>
            /\ is_in_break /\ timer = "break"
            /\ ~tx_inverted' /\ ~is_in_break' /\ timer' = "mab"
            /\ tx_out' = tx_out /\ tx_fifo' = tx_fifo /\ head' = head
            /\ int_ena' = int_ena
       /\ ev'.op = "timer_data" =>
            /\ ~is_in_break /\ timer = "mab" /\ ~tx_inverted
            /\ tx_out = <<>>
            /\ tx_out' = Fetch(data, 0, Min(size, FifoLen))
            /\ head' = Min(size, FifoLen)
            /\ DMX_INTR_TX_ALL \subseteq int_ena'
            /\ timer' = "paused"]_vars

\* The second timer fire of a send has written the first chunk
C3_FirstChunkWritten ==
    /\ ev.op = "timer_data"
    /\ ~tx_inverted /\ timer = "paused"
    /\ Len(tx_out) = FifoLen /\ size > FifoLen

\* C4: once the TX done interrupt is handled, last_sent_ts holds the time
\* of the handler's entry, is_busy is false, the semaphore is released and
\* the bus is turned back to receive.
C4_TxDoneTurnsBusAround ==
    [][ev'.op = "tx_done" =>
          /\ last_sent_ts' = now
          /\ ~is_busy'
          /\ data_written' = 1
          /\ rts' = 1]_vars

\* The error branch of the step just taken and the code it posts
ErrorCode(op) ==
    IF op = "overflow" THEN DMX_ERR_DATA_OVERFLOW ELSE DMX_ERR_IMPROPER_SLOT

C7_BreakEndsFrame ==
    [][(Serving("break") /\ "BRK_DET" \notin int_st') =>
          /\ (is_busy /\ waiting_task # NULL) => notify' = Notified(DMX_OK)
          /\ is_busy => size' = head
          /\ is_in_break' /\ is_busy' /\ head' = 0]_vars

C9_FullFrameNotified ==
    [][(ev'.op = "data" /\ is_busy /\ waiting_task # NULL
        /\ data'[0] = DMX_SC) =>
          IF head' > size
            THEN ev'.posted /\ notify' = Notified(DMX_OK) /\ ~is_busy'
            ELSE ~ev'.posted /\ notify' = notify /\ is_busy']_vars

\* The data branch has reported a full DMX frame to the armed waiter
C9_FrameReportedByData ==
    /\ ev.op = "data" /\ ev.posted
    /\ waiting_task = TASK /\ notify.pending
    /\ data[0] = DMX_SC
    /\ head > size /\ size > 0

\* C10: with a waiter armed, an RX data interrupt that leaves start code
\* 0xCC in the buffer and head >= message_len + 2 hands the packet off:
\* the frame is complete without waiting for the next break.
C10_RdmPacketHandedOff ==
    [][(ev'.op = "data" /\ is_busy /\ waiting_task # NULL
        /\ data'[0] = RDM_SC
        /\ head' >= data'[RDM_MESSAGE_LEN_INDEX] + 2) =>
          (ev'.posted /\ notify'.pending /\ ~is_busy')]_vars

\* The error codes the handler posts
ErrorCodes == {DMX_ERR_IMPROPER_SLOT, DMX_ERR_DATA_OVERFLOW}

\* C11: every overflow or framing-error interrupt reaches the task through
\* the notification and is never lost: its code is posted whether or not a
\* waiter is armed, and a posted error code that the task has not read yet
\* is replaced by another error code only, never by an OK.
C11_ErrorsNeverLost ==
    [][/\ ev'.op \in {"overflow", "framing"} =>
            notify' = Notified(ErrorCode(ev'.op))
       /\ (notify.pending /\ notify.value \in ErrorCodes
            /\ notify'.pending) => notify'.value \in ErrorCodes]_vars

\* The second half of C11 alone: an unread error code is never replaced by
\* an OK
C11_ErrorNotOverwrittenByOk ==
    [][(notify.pending /\ notify.value \in ErrorCodes /\ notify'.pending)
          => notify'.value \in ErrorCodes]_vars

\* C12: if the handler posts two notifications before the waiting task
\* runs, the task sees the value of the later one only: what is pending is
\* always the last value posted, and so is what the task reads.
C12_LatestValueWins ==
    /\ notify.pending =>
            (unread # <<>> /\ notify.value = unread[Len(unread)])
    /\ read.posted # <<>> => read.value = read.posted[Len(read.posted)]

\* The task has read a notification posted over an unread one of another
\* value
C12_SecondOfTwoRead ==
    /\ Len(read.posted) = 2
    /\ read.posted[1] # read.posted[2]
    /\ read.value = read.posted[2]
    /\ waiting_task = NULL

\* C13: in every reachable state, is_busy set means that a task has been
\* armed to wait (waiting_task is not NULL) or that a frame is outbound.
C13_BusyHasWaiterOrSends ==
    is_busy => (waiting_task # NULL \/ Transmitting)

\* The packet on the wire is a discovery response of this device and
\* rdm_parse has been run on all 24 bytes of it
ResponseParsed ==
    wire.from = "disc_response" /\ ev.op = "parse" /\ parse.size = 24

\* The response is 24 bytes that begin with seven 0xFE and one 0xAA
ResponseFramed ==
    /\ Len(wire.bytes) = 24
    /\ \A i \in 0 .. 6 : At(wire.bytes, i) = RDM_PREAMBLE
    /\ At(wire.bytes, 7) = RDM_DELIMITER

\* C14, as stated: for every device UID in [0, RDM_MAX_UID], the discovery
\* response is 24 bytes that begin with 7 x 0xFE and 0xAA, and rdm_parse on
\* them returns true with the UID the device held and a valid checksum.
C14_RoundTripOfStoredUid ==
    wire.from = "disc_response" =>
        /\ ResponseFramed
        /\ ResponseParsed =>
                /\ parse.ret
                /\ event.source_uid = wire.uid
                /\ event.checksum_is_valid

\* C14, amended: the discovery response is 24 bytes that begin with
\* 7 x 0xFE and 0xAA, and rdm_parse on them returns true, with a valid
\* checksum and with the UID rdm_get_uid returned: the stored UID, or the
\* UID made of the MAC address when the stored UID is 0.
C14_RoundTripOfDeviceUid ==
    wire.from = "disc_response" =>
        /\ ResponseFramed
        /\ ResponseParsed =>
                /\ parse.ret
                /\ event.source_uid = rdm_get_uid(wire.uid, arg.mac)
                /\ event.source_uid = rdm_uid
                /\ event.checksum_is_valid
                /\ DiscFields \subseteq event.filled

\* The response of a device whose UID is RDM_MAX_UID has been parsed
C14_MaxUidParsed ==
    /\ ResponseParsed
    /\ wire.uid = RDM_MAX_UID
    /\ event.source_uid = RDM_MAX_UID

\* The six bytes of u and 0xFF for each, added up
SumOfBytes(u) == u[0] + u[1] + u[2] + u[3] + u[4] + u[5] + 6 * 255

\* C15: in the discovery response each of the six UID bytes B, most
\* significant first, is sent as B | 0xAA then B | 0x55; the checksum is the
\* sum of B + 0xFF over the six bytes, a 16-bit value, sent high byte first
\* in the same way; every byte on the wire is an 8-bit value.
C15_ResponseEncoding ==
    wire.from = "disc_response" =>
        LET c == SumOfBytes(rdm_uid)
        IN  /\ \A k \in 0 .. 5 :
                   /\ At(wire.bytes, 8 + 2 * k) = BitOr(rdm_uid[5 - k], 170)
                   /\ At(wire.bytes, 9 + 2 * k) = BitOr(rdm_uid[5 - k], 85)
            /\ c < 65536
            /\ At(wire.bytes, 20) = BitOr(c \div 256, 170)
            /\ At(wire.bytes, 21) = BitOr(c \div 256, 85)
            /\ At(wire.bytes, 22) = BitOr(c % 256, 170)
            /\ At(wire.bytes, 23) = BitOr(c % 256, 85)
            /\ \A i \in 0 .. 23 : At(wire.bytes, i) \in 0 .. 255

\* A response has been built whose checksum has a high byte and a low byte
\* that differ
C15_ResponseBuilt ==
    /\ wire.from = "disc_response"
    /\ ev.op = "disc_response"
    /\ rdm_uid = Uid(<<1, 2, 3, 4, 5, 6>>)
    /\ At(wire.bytes, 20) # At(wire.bytes, 22)

\* rdm_parse has been run on a discovery response of another responder
ResponderParsed == wire.from = "responder" /\ ev.op = "parse"

\* C16: rdm_parse accepts a discovery response with any number n in 0 .. 7
\* of preamble bytes whose length is at least n + 17, the response of 17
\* bytes with no preamble included, and rejects one with no delimiter among
\* its first eight bytes or with a length below n + 17.
C16_PreambleLengths ==
    ResponderParsed =>
        (parse.ret <=> (wire.preamble <= 7
                          /\ parse.size >= wire.preamble + 17))

\* The same with the shortest response left out: what rdm_parse does for
\* every other length
C16_AllButTheShortest ==
    (ResponderParsed /\ parse.size # 17) =>
        (parse.ret <=> (wire.preamble <= 7
                          /\ parse.size >= wire.preamble + 17))

\* rdm_parse has been run on the whole of a well-formed standard packet of
\* a controller
ControllerParsed ==
    wire.from = "controller" /\ ev.op = "parse"
    /\ parse.size = Len(wire.bytes)

\* C17: rdm_parse on a well-formed standard packet, the one with message
\* length 24 and no parameter data included, returns true and yields the
\* header, with sub_device and pid in host order and the UIDs converted from
\* big-endian.
C17_WellFormedPacketParses ==
    ControllerParsed =>
        /\ parse.ret
        /\ PacketFields \subseteq event.filled
        /\ event.checksum_is_valid
        /\ event.destination_uid = arg.uid
        /\ event.source_uid = wire.uid
        /\ event.tn = 1 /\ event.port_id = 1 /\ event.message_count = 0
        /\ event.sub_device = 258
        /\ event.cc = 32
        /\ event.pid = 96
        /\ event.pdl = Len(wire.bytes) - RDM_BASE_PACKET_SIZE

\* What the code does instead: no standard packet, well formed or not, is
\* ever reported as parsed
StandardPacketNeverParsed ==
    (ev.op = "parse" /\ At(wire.bytes, 0) = RDM_SC) => ~parse.ret

\* rdm_parse has been run on a buffer that starts like a standard packet
StandardParsed ==
    /\ ev.op = "parse"
    /\ At(wire.bytes, 0) = RDM_SC /\ At(wire.bytes, 1) = RDM_SUB_SC

\* The message length field of the packet is one a standard packet of the
\* size given to rdm_parse can have
MessageLenInRange ==
    24 <= At(wire.bytes, 2) /\ At(wire.bytes, 2) <= parse.size

\* C18: rdm_parse treats a buffer as a standard packet only when
\* 24 <= message_len <= size; for any other message_len it computes no
\* checksum, fills no field of the event and reads no byte at an index at
\* or past size.
C18_MessageLenGuarded ==
    (StandardParsed /\ ~MessageLenInRange) =>
        /\ event.filled = {}
        /\ parse.end <= parse.size

\* The packet on the wire is a mute or un-mute command of this device
MuteBuilt == wire.from \in {"mute", "un_mute"}

\* rdm_parse has been run on all 26 bytes of it
MuteParsed ==
    MuteBuilt /\ ev.op = "parse" /\ parse.size = RDM_BASE_PACKET_SIZE

\* C19: for every destination UID and mute flag, the 26-byte packet of
\* rdm_write_discovery_mute (message length 24, no parameter data,
\* big-endian additive checksum over bytes 0 to 23) decodes with rdm_parse
\* to a valid checksum and to the header it was built from: destination
\* UID, source UID = device UID, command class DISCOVERY_COMMAND, PID
\* DISC_MUTE or DISC_UN_MUTE, sub-device 0, PDL 0.
C19_MuteRoundTrip ==
    MuteParsed =>
        /\ event.checksum_is_valid
        /\ PacketFields \subseteq event.filled
        /\ event.destination_uid = arg.uid
        /\ event.source_uid = rdm_uid
        /\ event.cc = RDM_DISCOVERY_COMMAND
        /\ event.pid = (IF wire.from = "mute" THEN RDM_PID_DISC_MUTE
                                              ELSE RDM_PID_DISC_UN_MUTE)
        /\ event.sub_device = 0
        /\ event.pdl = 0

\* The packet itself is as the claim describes it
MuteCommandWellFormed ==
    MuteBuilt =>
        /\ Len(wire.bytes) = RDM_BASE_PACKET_SIZE
        /\ At(wire.bytes, 2) = 24
        /\ At(wire.bytes, 23) = 0
        /\ SubSeq(wire.bytes, 4, 9) = UidWire(arg.uid)
        /\ SubSeq(wire.bytes, 10, 15) = UidWire(rdm_uid)
        /\ 256 * At(wire.bytes, 24) + At(wire.bytes, 25)
               = BufSum(wire.bytes, 24, 0)

\* A six-byte wire UID has been converted to the 64-bit value
Converted == ev.op \in {"buf_to_uid", "uidcpy"}

\* C20: converting a six-byte big-endian wire UID to the 64-bit value
\* (buf_to_uid, uidcpy) yields a value whose top 16 bits are zero, and
\* buf_to_uid(uid_to_buf(u)) = u for every u in [0, 0xFFFFFFFFFFFF].
C20_TopBitsZeroAndRoundTrip ==
    Converted =>
        /\ val[6] = 0 /\ val[7] = 0
        /\ ev.op = "buf_to_uid" => val = arg.uid

\* What the conversions do give: the low 48 bits of the value
LowBytesConverted ==
    Converted => \A i \in 0 .. 5 : val[i] = arg.uid[i]

\* The start codes of the three reserved ranges
ReservedStartCodes == (146 .. 169) \cup (171 .. 205) \cup (240 .. 247)

\* C27: for every start code in 0..255, DMX_START_CODE_IS_VALID is false
\* exactly for the reserved ranges [0x92,0xA9], [0xAB,0xCD] and [0xF0,0xF7]
\* and true otherwise
C27_ReservedStartCodesRejected ==
    sc_valid.done =>
        (sc_valid.value <=> start_code \notin ReservedStartCodes)

\* 0x92, the first code of a reserved range, has been rejected
C27_FirstReservedRejected ==
    sc_valid.done /\ start_code = 146 /\ ~sc_valid.value

\* The label last set is what a get with room for it returns
LabelRead ==
    /\ reply.op = "get_device_label" /\ ~reply.invalid
    /\ hist.label.set
    /\ Len(hist.label.bytes) <= params[RDM_PID_DEVICE_LABEL].cap
    /\ reply.max >= Len(hist.label.bytes)

\* C21: after a successful rdm_set_device_label(v, n) with n within the
\* entry's capacity, rdm_get_device_label returns exactly those n bytes,
\* whatever has been done to other parameters in between, until the next
\* set of DEVICE_LABEL
C21_GetReturnsLabelSet ==
    LabelRead => reply.out = hist.label.bytes

\* "Hello" has been set, the other parameters have been registered since,
\* and a get has returned "Hello"
C21_HelloReadBack ==
    /\ LabelRead /\ hist.label.bytes = Hello
    /\ reply.out = Hello
    /\ params[RDM_PID_DEVICE_INFO].exists
    /\ params[RDM_PID_SOFTWARE_VERSION_LABEL].exists

\* The PIDs that have an entry in the store
Registered == {pid \in Pids : params[pid].exists}

\* C22: the change-notification queue holds only PIDs that are registered
\* and whose value a successful set has changed; a failed
\* rdm_set_device_label pushes nothing
C22_QueueHoldsChangedRegistered ==
    /\ [](\A i \in 1 .. Len(queue) :
              queue[i] \in Registered /\ queue[i] \in hist.changed)
    /\ [][(ev'.op = "set_device_label" /\ ~reply'.ok) => queue' = queue]_vars

\* A set has failed on a port with no driver while the queue held the PID
\* of an earlier, successful set
C22_FailedSetAfterGoodSet ==
    /\ reply.op = "set_device_label" /\ reply.invalid
    /\ queue # <<>> /\ RDM_PID_DEVICE_LABEL \in hist.changed

\* The registration call of each PID and the definition it gives
RegistrationOf(pid) ==
    CASE pid = RDM_PID_DEVICE_INFO -> "register_device_info"
      [] pid = RDM_PID_DEVICE_LABEL -> "register_device_label"
      [] pid = RDM_PID_SOFTWARE_VERSION_LABEL ->
             "register_software_version_label"

DefinitionOf(pid) ==
    CASE pid = RDM_PID_DEVICE_INFO -> DeviceInfoDefinition
      [] pid = RDM_PID_DEVICE_LABEL -> DeviceLabelDefinition
      [] pid = RDM_PID_SOFTWARE_VERSION_LABEL ->
             SoftwareVersionLabelDefinition

\* C23: calling a registration function for a PID that is already
\* registered updates the definition and the callback of that PID and
\* leaves the stored value unchanged
C23_ReRegistrationUpdates ==
    [][\A pid \in Pids :
          (/\ params[pid].exists
           /\ ev'.op = RegistrationOf(pid)
           /\ ~reply'.invalid /\ ~panicked')
          => (/\ params'[pid].cb = reply'.cb
              /\ params'[pid].def = DefinitionOf(pid)
              /\ params'[pid].value = params[pid].value)]_vars

\* C23, the part that holds of the code: a registration call for a PID
\* that is already registered leaves its stored value unchanged
C23_ReRegistrationKeepsValue ==
    [][\A pid \in Pids :
          (params[pid].exists /\ ev'.op = RegistrationOf(pid))
          => params'[pid].value = params[pid].value]_vars

\* C24: every registered PID whose definition has a SET handler or a
\* SET-capable command class has backing storage that is not STATIC
C24_SetHandlerMeansWritable ==
    \A pid \in Registered :
        (params[pid].def.set # NULL \/ params[pid].def.pid_cc = "GET_SET")
            => params[pid].type # "STATIC"

\* The three PIDs are registered: the software version label STATIC with
\* no SET handler, the device label with one
C24_AllRegistered ==
    /\ Registered = Pids
    /\ params[RDM_PID_SOFTWARE_VERSION_LABEL].type = "STATIC"
    /\ params[RDM_PID_SOFTWARE_VERSION_LABEL].def.set = NULL
    /\ params[RDM_PID_DEVICE_LABEL].def.set # NULL

\* The calls of product_info.c
ProductInfoCalls ==
    {"register_device_info", "register_device_label", "get_device_label",
     "set_device_label", "register_software_version_label",
     "get_software_version_label"}

\* C25: a registration, get or set function called with an invalid argument
\* (port >= maximum, driver not installed, null label or output pointer,
\* label of 32 or more characters) returns false or zero without
\* dereferencing the argument and without changing the parameter store or
\* the queue, whether or not the PID is already registered
C25_InvalidArgumentsTurnedAway ==
    [][(ev'.op \in ProductInfoCalls /\ reply'.bad)
          => (/\ ~reply'.ok /\ ~reply'.deref /\ ~panicked'
              /\ params' = params /\ queue' = queue)]_vars

\* C25, the cases that hold of the code: an invalid argument met while the
\* PID is not registered yet, or one a DMX_CHECK tests, is turned away with
\* false or zero and with the store and the queue as they were
C25_CheckedArgumentsTurnedAway ==
    [][(ev'.op \in ProductInfoCalls /\ reply'.invalid)
          => (/\ ~reply'.ok /\ ~reply'.deref /\ ~panicked'
              /\ params' = params /\ queue' = queue)]_vars

\* C26: when a QUEUED_MESSAGE request is served and the queue is not empty,
\* exactly one PID is popped, the header PID is substituted by the popped
\* PID and the response PDL is defined; when the queue is empty the header
\* PID becomes STATUS_MESSAGE and the response is an ACK with PDL 0
C26_QueuedMessageResponse ==
    [][(ev'.op = "queued_message" /\ reply'.ack # "NACK_REASON")
          => IF queue # <<>>
                 THEN /\ queue' = Tail(queue)
                      /\ reply'.popped = Head(queue)
                      /\ reply'.pid = Head(queue)
                      /\ reply'.pdl_written
                 ELSE /\ queue' = <<>>
                      /\ reply'.pid = RDM_PID_STATUS_MESSAGE
                      /\ reply'.ack = "ACK"
                      /\ reply'.pdl_written /\ reply'.pdl = 0]_vars

\* C26, the cases that hold of the code: one PID is popped from a queue
\* that is not empty and the response is an ACK; an empty queue gives
\* STATUS_MESSAGE, ACK and PDL 0
C26_PopAndStatusMessage ==
    [][(ev'.op = "queued_message" /\ reply'.ack # "NACK_REASON")
          => IF queue # <<>>
                 THEN /\ queue' = Tail(queue)
                      /\ reply'.popped = Head(queue)
                      /\ reply'.ack = "ACK"
                 ELSE /\ queue' = <<>>
                      /\ reply'.pid = RDM_PID_STATUS_MESSAGE
                      /\ reply'.ack = "ACK"
                      /\ reply'.pdl_written /\ reply'.pdl = 0]_vars

DataStarted == ev.op = "timer_data"

\* The frame is written out and the TX data interrupt is disabled
WrittenOut == head = size /\ int_ena \cap DMX_INTR_TX_DATA = {}

\* The send has completed
SendCompleted == ~is_busy /\ data_written = 1

\* C29: once the second timer fire has started the data of a frame of any
\* size in 0..513, and the TX interrupts are served fairly with no other
\* interrupt arriving, head eventually equals size with the TX data
\* interrupt disabled, and is_busy eventually becomes false with the
\* semaphore released
C29_SendCompletes ==
    /\ DataStarted ~> WrittenOut
    /\ DataStarted ~> SendCompleted

\* C29 for frames of 1..513 bytes
C29_SendOfBytesCompletes ==
    /\ DataStarted ~> WrittenOut
    /\ (DataStarted /\ size >= 1) ~> SendCompleted

\* A frame of 513 bytes has been written out in several fills of the TX
\* FIFO and its send has completed
C29_FullFrameCompleted ==
    /\ ev.op = "tx_done" /\ SendCompleted /\ WrittenOut
    /\ size = DMX_MAX_PACKET_SIZE

\* The sources in the order of the claim, each with the step that serves it
\* and the flags it owns
Sources ==
    << [ops |-> {"overflow"}, mask |-> DMX_INTR_RX_FIFO_OVERFLOW],
       [ops |-> {"framing"}, mask |-> DMX_INTR_RX_FRAMING_ERR],
       [ops |-> {"break", "abort"}, mask |-> DMX_INTR_RX_BREAK],
       [ops |-> {"data"}, mask |-> DMX_INTR_RX_DATA],
       [ops |-> {"clash"}, mask |-> DMX_INTR_RX_CLASH],
       [ops |-> {"tx_data"}, mask |-> DMX_INTR_TX_DATA],
       [ops |-> {"tx_done"}, mask |-> DMX_INTR_TX_DONE] >>

\* The sources pending in the status register st, and the first of them
PendingSources(st) == {i \in DOMAIN Sources : st \cap Sources[i].mask # {}}
FirstPending(st) ==
    CHOOSE i \in PendingSources(st) : \A j \in PendingSources(st) : i <= j

\* C30: with several sources pending in one ISR entry, each pass of the
\* loop serves exactly one source, the first pending one in the order
\* overflow, framing error, break, RX data, bus clash, TX data, TX done,
\* and clears only that source's flags, so a source is served only after
\* every pending source before it
C30_ServedInPriorityOrder ==
    [][(in_isr /\ in_isr' /\ PendingSources(int_st) # {})
          => LET first == Sources[FirstPending(int_st)]
             IN  /\ ev'.op \in first.ops
                 /\ int_st' = int_st \ first.mask]_vars

\* The TX data branch has been served with TX done pending behind it, and
\* has left the TX done flag set
C30_TxDataBeforeTxDone ==
    /\ in_isr /\ ev.op = "tx_data"
    /\ int_st = DMX_INTR_TX_DONE

\* C31: under every interleaving of receive interrupts (break detected, RX
\* data) with a transmit sequence in progress, no data byte is written to
\* the TX FIFO while the TX line is still inverted, and head is not reset
\* or moved backwards while the frame is outbound
C31_SendUndisturbedByReceive ==
    /\ [][Len(tx_out') > Len(tx_out) => ~tx_inverted]_vars
    /\ [][(Sending /\ Sending') => head' >= head]_vars

\* C32: on the receive path, for any byte stream and any FIFO fill level,
\* bytes are stored only at buffer indices 0..512 and head never exceeds
\* 513; once head = 513, further data interrupts store nothing and reset
\* the FIFO, until the next break
C32_StoresStayInBuffer ==
    /\ [](head <= DMX_MAX_PACKET_SIZE)
    /\ [][ev'.op = "data" =>
            /\ head' >= head /\ head' <= DMX_MAX_PACKET_SIZE
            /\ \A i \in BufIndex :
                   data'[i] # data[i] => (i >= head /\ i < head')
            /\ head = DMX_MAX_PACKET_SIZE =>
                   (head' = head /\ data' = data /\ rx_fifo' = <<>>)]_vars
    /\ [][(head = DMX_MAX_PACKET_SIZE /\ head' # head) =>
            (ev'.op = "break" /\ head' = 0)]_vars

\* A data interrupt has found the buffer full of a frame still being
\* received, has stored nothing and has reset the FIFO (head is odd only
\* once a read was cut short at the end of the buffer, which leaves bytes
\* in the FIFO)
C32_FullBufferDropsData ==
    /\ ev.op = "data" /\ is_busy
    /\ head = DMX_MAX_PACKET_SIZE /\ rx_fifo = <<>>
    /\ data[DMX_MAX_PACKET_SIZE - 1] # 0

\* The steps that are one pass of the loop of dmx_intr_handler
LoopPasses ==
    {"overflow", "framing", "break", "abort", "data", "clash", "tx_data",
     "tx_done", "other"}

\* Every pass of the loop clears at least one pending status bit and sets
\* none; the pass on bits that have no branch disables every one of them
\* and clears them
PassesShrinkPending ==
    [][(in_isr /\ ev'.op \in LoopPasses) =>
          /\ int_st' \subseteq int_st /\ int_st' # int_st
          /\ ev'.op = "other" =>
                 (int_st' = {} /\ int_ena' \cap int_st = {})]_vars

\* The handler leaves its loop only when the status reads zero
ExitsOnZeroStatus == [][(in_isr /\ ~in_isr') => int_st = {}]_vars

\* C33: an invocation of the UART handler terminates when the hardware
\* raises no new interrupt during it: every pass of its loop clears at
\* least one pending status bit (bits with no branch are disabled and
\* cleared), so the pending set shrinks until the status reads zero, and
\* every invocation reaches the exit of the loop
C33_HandlerTerminates ==
    /\ PassesShrinkPending
    /\ ExitsOnZeroStatus
    /\ (in_isr ~> ~in_isr)

\* The invocations in which no call made by the handler aborts do reach
\* the exit of the loop
TerminatesUnlessAborted ==
    /\ PassesShrinkPending
    /\ ExitsOnZeroStatus
    /\ (in_isr ~> (~in_isr \/ panicked))

====
